---- MODULE Spec2Model ----
(***************************************************************************)
(* Verification model of the qimenEngine package: the rule engine, the     *)
(* sexagenary calendar assembler, the chart-number (ju) calculator, the     *)
(* nine-palace board builder and the layered cache.                         *)
(*                                                                          *)
(* Chinese identifiers of the source are written in pinyin, because the     *)
(* module is ASCII: "jia" is the stem 甲, "zi" the branch 子, "lichun" the  *)
(* solar term 立春, "zhifu" the deity 直符, and so on.                      *)
(***************************************************************************)
EXTENDS Integers, Sequences, FiniteSets, TLC

VARIABLES
    plugins,     \* RulesEngine.plugins: the registered plugins, in order
    applyRet,    \* what the last apply_all call did: NoCall, or [raised, results]
    config,      \* the global QimenConfig: [solar_term_algorithm]
    cal,         \* the CalendarInfo record last built (NoCal before any)
    juRet,       \* what the last get_ju / validate_ju call returned
    board,       \* the NinePalace last built (NoBoard before any)
    l1,          \* the ThreadSafeLRUCache: [max_size, default_ttl, cache, nxt, prv]
    l2,          \* the RedisCache tier: [present, store], store the server's keys
    now,         \* time.time(), in whole seconds
    ret,         \* the last cache call: its name, arguments and return value
    lock,        \* ThreadSafeLRUCache._lock (an RLock): [owner, count]
    th,          \* per thread: the call in progress and the statement it is at
    memo,        \* lru_cache of calculate_all_solar_terms: [year, terms], oldest first
    aret,        \* the last call of the astronomical calculator: name, argument, result
    qc           \* the QimenCache object: its four category switches

vars == <<plugins, applyRet, config, cal, juRet, board, l1, l2, now, ret, lock, th, memo, aret, qc>>

rulesVars == <<plugins, applyRet>>
calVars == <<config, cal, juRet>>
palaceVars == <<board>>
cacheVars == <<l1, l2, now, ret, lock, th>>
astroVars == <<memo, aret>>
qimenCacheVars == <<qc>>

(***************************************************************************)
(* Helpers shared by all sections.                                          *)
(***************************************************************************)
None == "None"

\* Python's None where the slot otherwise holds a number (ttl, expire_time,
\* gong_num).
NoneInt == -1

\* Python's list.index: the 0-based position of the first occurrence of x.
IndexOf(seq, x) == (CHOOSE i \in 1..Len(seq) : seq[i] = x /\ \A j \in 1..(i - 1) : seq[j] # x) - 1

\* Python's seq[i] for a 0-based, non-negative index.
At(seq, i) == seq[i + 1]

\* Python's seq[::-1].
Reversed(seq) == [i \in 1..Len(seq) |-> seq[Len(seq) + 1 - i]]

Range(seq) == {seq[i] : i \in 1..Len(seq)}

(***************************************************************************)
(* rules.py: RulesEngine.                                                   *)
(*                                                                          *)
(* A plugin is an object with a name and an apply method.  What apply does  *)
(* with the board is the plugin's business; the engine only sees whether it *)
(* returned a list of messages or raised an Exception.                      *)
(***************************************************************************)
MaxPlugins == 4

PluginNames == {"zhifu", "wangshuai", "geju", "yingqi"}

\* What one call of plugin.apply does: return a message list, or raise.
PluginBehaviours == {"return", "throw"}

Plugins == [name : PluginNames, does : PluginBehaviours]


\* The list a non-throwing plugin returns: its own findings, which differ from
\* plugin to plugin.
Messages(p) == <<"finding of", p.name>>

\* f"插件执行错误: {str(e)}"
ErrorString == "plugin error: boom"

\* getattr(plugin, 'name', plugin.__class__.__name__)
PluginName(p) == p.name

\* results[key] = value on a Python dict, modelled as a function.
DictSet(d, k, v) == [x \in (DOMAIN d) \cup {k} |-> IF x = k THEN v ELSE d[x]]

EmptyDict == [x \in {} |-> <<>>]

NoCall == [called |-> FALSE, raised |-> FALSE, results |-> EmptyDict]

\* A loop body without the try/except: the exception leaves apply_all.
RunPluginNoCatch(acc, p) ==
    IF acc.raised THEN acc
    ELSE IF p.does = "throw"
         THEN [acc EXCEPT !.raised = TRUE]
         ELSE [acc EXCEPT !.results = DictSet(acc.results, PluginName(p), Messages(p))]

\* One iteration of the for loop of apply_all: the try/except around apply.
RunPlugin(acc, p) ==
    IF acc.raised THEN acc
    ELSE IF p.does = "throw"
         THEN [acc EXCEPT !.results = DictSet(acc.results, PluginName(p), <<ErrorString>>)]
         ELSE [acc EXCEPT !.results = DictSet(acc.results, PluginName(p), Messages(p))]

RECURSIVE ApplyAllFrom(_, _, _)
ApplyAllFrom(ps, i, acc) ==
    IF i > Len(ps) THEN acc ELSE ApplyAllFrom(ps, i + 1, RunPlugin(acc, ps[i]))

\* RulesEngine.apply_all: results = {}; for plugin in self.plugins: ...
apply_all(ps) == ApplyAllFrom(ps, 1, [called |-> TRUE, raised |-> FALSE, results |-> EmptyDict])

\* self.plugins.remove(plugin): drops the first equal element.
RemoveFirst(seq, x) ==
    LET i == IndexOf(seq, x) + 1
    IN [j \in 1..(Len(seq) - 1) |-> IF j < i THEN seq[j] ELSE seq[j + 1]]

AddPlugin(p) ==
    /\ Len(plugins) < MaxPlugins
    /\ plugins' = Append(plugins, p)
    /\ applyRet' = NoCall
    /\ UNCHANGED <<calVars, palaceVars, cacheVars, astroVars, qimenCacheVars>>

RemovePlugin(p) ==
    /\ plugins' = IF p \in Range(plugins) THEN RemoveFirst(plugins, p) ELSE plugins
    /\ applyRet' = NoCall
    /\ UNCHANGED <<calVars, palaceVars, cacheVars, astroVars, qimenCacheVars>>

ApplyAll ==
    /\ applyRet' = apply_all(plugins)
    /\ UNCHANGED <<plugins, calVars, palaceVars, cacheVars, astroVars, qimenCacheVars>>

NoCal == [built |-> FALSE]
NoJu == [op |-> None]
NoBoard == [mode |-> None]

DefaultConfig == [solar_term_algorithm |-> "astronomical"]

\* The cache is not constructed in the runs of the other components.
NoCache == [built |-> FALSE]

InitNoCache ==
    /\ l1 = NoCache
    /\ l2 = NoCache
    /\ now = 0
    /\ ret = NoCache
    /\ lock = NoCache
    /\ th = NoCache
    /\ memo = <<>>
    /\ aret = [op |-> None]
    /\ qc = NoCache

InitOthersOfRules ==
    /\ config = DefaultConfig
    /\ cal = NoCal
    /\ juRet = NoJu
    /\ board = NoBoard

InitRules ==
    /\ plugins = <<>>
    /\ applyRet = NoCall
    /\ InitOthersOfRules
    /\ InitNoCache

NextRules ==
    \/ \E p \in Plugins : AddPlugin(p)
    \/ \E p \in Plugins : RemovePlugin(p)
    \/ ApplyAll

SpecRules == InitRules /\ [][NextRules]_vars

DistinctNames(ps) == \A i, j \in 1..Len(ps) : PluginName(ps[i]) = PluginName(ps[j]) => i = j

\* C1: with distinct plugin names, apply_all never raises and returns one entry
\* per registered plugin: the returned list for a plugin that returned, a list
\* of exactly one error string for a plugin that raised.
C1_PluginIsolation ==
    (applyRet.called /\ DistinctNames(plugins)) =>
        /\ ~applyRet.raised
        /\ DOMAIN applyRet.results = {PluginName(plugins[i]) : i \in 1..Len(plugins)}
        /\ \A i \in 1..Len(plugins) :
              applyRet.results[PluginName(plugins[i])] =
                  IF plugins[i].does = "throw" THEN <<ErrorString>> ELSE Messages(plugins[i])

\* One throwing plugin and three normal ones, all four with an entry.
C1_Witness ==
    /\ applyRet.called
    /\ Len(plugins) = 4
    /\ DistinctNames(plugins)
    /\ Cardinality({i \in 1..4 : plugins[i].does = "throw"}) = 1
    /\ Cardinality(DOMAIN applyRet.results) = 4

\* C30: after any sequence of add_plugin and remove_plugin calls, apply_all
\* returns exactly one findings entry per registered plugin: the result has as
\* many entries as the engine has plugins, and each registered plugin's own
\* outcome is the entry under its name (none is overwritten by another's).
C30_OneEntryPerPlugin ==
    (applyRet.called /\ ~applyRet.raised) =>
        /\ Cardinality(DOMAIN applyRet.results) = Len(plugins)
        /\ \A i \in 1..Len(plugins) :
              applyRet.results[PluginName(plugins[i])] =
                  IF plugins[i].does = "throw" THEN <<ErrorString>> ELSE Messages(plugins[i])

(***************************************************************************)
(* symbols.py: the fixed cycles.  The 24 solar terms start at lichun (立春), *)
(* so xiaohan (小寒) and dahan (大寒) carry the indices 22 and 23.          *)
(***************************************************************************)
TIAN_GAN == <<"jia", "yi", "bing", "ding", "wu", "ji", "geng", "xin", "ren", "gui">>

DI_ZHI == <<"zi", "chou", "yin", "mao", "chen", "si", "wu", "wei", "shen", "you", "xu", "hai">>

SOLAR_TERMS ==
    <<"lichun", "yushui", "jingzhe", "chunfen", "qingming", "guyu",
      "lixia", "xiaoman", "mangzhong", "xiazhi", "xiaoshu", "dashu",
      "liqiu", "chushu", "bailu", "qiufen", "hanlu", "shuangjiang",
      "lidong", "xiaoxue", "daxue", "dongzhi", "xiaohan", "dahan">>

(***************************************************************************)
(* ganzhi.py: GanZhiCalculator.                                             *)
(***************************************************************************)
\* base_year of calculate_year_ganzhi
BaseYear == 1984

\* base_zhi_index of calculate_day_ganzhi (1900-01-01 is a xu day)
BaseZhiIndex == 10

YEAR_MONTH_GAN_TABLE == <<2, 4, 6, 8, 2, 4, 6, 8, 0, 0>>

DAY_HOUR_GAN_TABLE == <<0, 2, 4, 6, 8, 0, 2, 4, 6, 8>>

\* SOLAR_TERM_TO_ZHI, in the order of SOLAR_TERMS: lichun, yushui -> 2 (yin) ...
\* daxue, dongzhi -> 0 (zi), xiaohan, dahan -> 1 (chou).
SOLAR_TERM_TO_ZHI ==
    [n \in Range(SOLAR_TERMS) |->
        LET i == IndexOf(SOLAR_TERMS, n)
        IN CASE i \in 0..19 -> 2 + (i \div 2)
             [] i \in 20..21 -> 0
             [] OTHER -> 1]

IsLeap(y) == (y % 4 = 0) /\ ((y % 100 # 0) \/ (y % 400 = 0))

DaysInMonth(y, m) ==
    IF m = 2 THEN (IF IsLeap(y) THEN 29 ELSE 28)
    ELSE IF m \in {4, 6, 9, 11} THEN 30 ELSE 31

RECURSIVE DaysBeforeMonth(_, _)
DaysBeforeMonth(y, m) == IF m = 1 THEN 0 ELSE DaysBeforeMonth(y, m - 1) + DaysInMonth(y, m - 1)

\* date.toordinal(): day 1 is 0001-01-01 of the proleptic Gregorian calendar.
ToOrdinal(y, m, d) ==
    LET p == y - 1
    IN p * 365 + (p \div 4) - (p \div 100) + (p \div 400) + DaysBeforeMonth(y, m) + d

\* datetime(year, month, day, hour)
datetime(y, m, d, hour) == ToOrdinal(y, m, d) * 24 + hour

\* date.fromordinal(n), as datetime._ord2ymd computes it: <<year, month, day>>.
FromOrdinal(n) ==
    LET n0 == n - 1
        n400 == n0 \div 146097
        r400 == n0 % 146097
        n100 == r400 \div 36524
        r100 == r400 % 36524
        n4 == r100 \div 1461
        r4 == r100 % 1461
        n1 == r4 \div 365
        r1 == r4 % 365
        year == n400 * 400 + n100 * 100 + n4 * 4 + n1 + 1
    IN IF n1 = 4 \/ n100 = 4 THEN <<year - 1, 12, 31>>
       ELSE LET m0 == (r1 + 50) \div 32
                month == IF DaysBeforeMonth(year, m0) > r1 THEN m0 - 1 ELSE m0
            IN <<year, month, r1 - DaysBeforeMonth(year, month) + 1>>

\* A year pillar counted from the distance to the base year, in either direction.
calculate_year_ganzhi_Abs(year) ==
    LET offset == IF year >= BaseYear THEN year - BaseYear ELSE BaseYear - year
    IN <<At(TIAN_GAN, offset % 10), At(DI_ZHI, offset % 12)>>

calculate_year_ganzhi(year) ==
    LET offset == year - BaseYear
        gan_index == offset % 10
        zhi_index == offset % 12
    IN <<At(TIAN_GAN, gan_index), At(DI_ZHI, zhi_index)>>

\* calculate_month_ganzhi(dt, use_solar_terms); solar_term is the name that
\* get_current_solar_term(dt) returned.
calculate_month_ganzhi(year, month, solar_term, use_solar_terms) ==
    LET month_zhi_index ==
            IF use_solar_terms
            THEN (IF solar_term \in DOMAIN SOLAR_TERM_TO_ZHI
                  THEN SOLAR_TERM_TO_ZHI[solar_term] ELSE 2)
            ELSE (month + 1) % 12
        year_gan_index == IndexOf(TIAN_GAN, calculate_year_ganzhi(year)[1])
        base_month_gan_index == At(YEAR_MONTH_GAN_TABLE, year_gan_index)
        month_gan_index == (base_month_gan_index + (month_zhi_index - 2)) % 10
    IN <<At(TIAN_GAN, month_gan_index), At(DI_ZHI, month_zhi_index)>>

calculate_day_ganzhi(y, m, d) ==
    LET days_diff == ToOrdinal(y, m, d) - ToOrdinal(1900, 1, 1)
        gan_index == (0 + days_diff) % 10
        zhi_index == (BaseZhiIndex + days_diff) % 12
    IN <<At(TIAN_GAN, gan_index), At(DI_ZHI, zhi_index)>>

(***************************************************************************)
(* qimen_calendar.py: from_datetime.                                        *)
(*                                                                          *)
(* The astronomy behind get_current_solar_term is floating-point root       *)
(* finding; its result enters as an input: any of the 24 terms, and any     *)
(* whole number of days between the term's exact time and the timestamp.    *)
(***************************************************************************)
YearSpan == 1
MaxDay == 1
MaxTermDays == 5

Years == (BaseYear - YearSpan)..(BaseYear + YearSpan)

Minutes == {0, 30}

Algorithms == {"astronomical", "average"}

\* get_jie_qi_day(year, month, solar_term)
get_jie_qi_day(solar_term) ==
    IF IndexOf(SOLAR_TERMS, solar_term) % 2 = 0 THEN 6 ELSE 21

\* get_yuan_shou(day, jie_qi_day)
get_yuan_shou(day, jie_qi_day) ==
    IF day >= jie_qi_day THEN ((day - jie_qi_day) \div 5) + 1
    ELSE ((day + 30 - jie_qi_day) \div 5) + 1

\* hour_zhi_index = 0 if calc_dt.hour == 23 else (calc_dt.hour + 1) // 2
HourZhiIndex(hour) == IF hour = 23 THEN 0 ELSE (hour + 1) \div 2

\* An hour stem that ignores the day stem (no five-rat base).
HourGanIndexNoBase(day_gan, hour_zhi_index) == (1 + hour_zhi_index) % 10

\* hour_gan_index = (DAY_HOUR_GAN_TABLE.get(day_gan_index, 0) + hour_zhi_index) % 10
HourGanIndex(day_gan, hour_zhi_index) ==
    (At(DAY_HOUR_GAN_TABLE, IndexOf(TIAN_GAN, day_gan)) + hour_zhi_index) % 10

\* from_datetime is a pure function of the timestamp: a behaviour is one call.
\* from_datetime for a naive timestamp with true solar time disabled
\* (calc_dt = dt).  term = [name, days]: the current solar term and the whole
\* days elapsed since its exact time (-1: the exact time is later than dt).
from_datetime(y, m, d, hour, minute, term, algorithm) ==
    LET year_gz == calculate_year_ganzhi(y)
        month_gz == calculate_month_ganzhi(y, m, term.name, TRUE)
        day_gz == calculate_day_ganzhi(y, m, d)
        hour_zhi_index == HourZhiIndex(hour)
        hour_gan_index == HourGanIndex(day_gz[1], hour_zhi_index)
        days_diff == IF term.days >= 0 THEN term.days ELSE 0
        yuan_shou ==
            IF algorithm = "astronomical"
            THEN LET raw == (days_diff \div 5) + 1   \* min(max(raw, 1), 6)
                 IN IF raw < 1 THEN 1 ELSE IF raw > 6 THEN 6 ELSE raw
            ELSE get_yuan_shou(d, get_jie_qi_day(term.name))
    IN [built |-> TRUE,
        year |-> y, month |-> m, day |-> d, hour |-> hour, minute |-> minute,
        solar_term |-> term.name,
        solar_term_index |-> IndexOf(SOLAR_TERMS, term.name),
        year_gan |-> year_gz[1], year_zhi |-> year_gz[2],
        month_gan |-> month_gz[1], month_zhi |-> month_gz[2],
        day_gan |-> day_gz[1], day_zhi |-> day_gz[2],
        hour_gan |-> At(TIAN_GAN, hour_gan_index), hour_zhi |-> At(DI_ZHI, hour_zhi_index),
        is_early_zi |-> (hour = 0 /\ minute < 30),
        is_late_zi |-> (hour = 23 /\ minute >= 30),
        yuan_shou |-> yuan_shou]

FromDatetime(y, m, d, hour, minute, term, algorithm) ==
    /\ cal' = from_datetime(y, m, d, hour, minute, term, algorithm)
    /\ juRet' = NoJu
    /\ UNCHANGED <<config, rulesVars, palaceVars, cacheVars, astroVars, qimenCacheVars>>

(***************************************************************************)
(* validation.py: the stem-branch parity check of GanZhiValidated and of    *)
(* QimenValidator._basic_ganzhi_validation.                                 *)
(***************************************************************************)
validate_ganzhi(gan, zhi) ==
    /\ gan \in Range(TIAN_GAN)
    /\ zhi \in Range(DI_ZHI)
    /\ (IndexOf(TIAN_GAN, gan) % 2) = (IndexOf(DI_ZHI, zhi) % 2)

InitCal ==
    /\ config \in [solar_term_algorithm : Algorithms]
    /\ cal = NoCal
    /\ juRet = NoJu
    /\ plugins = <<>>
    /\ applyRet = NoCall
    /\ board = NoBoard
    /\ InitNoCache

NextCal ==
    /\ ~cal.built
    /\ \E y \in Years, m \in 1..12, d \in 1..MaxDay, hour \in 0..23, minute \in Minutes,
          n \in Range(SOLAR_TERMS), e \in -1..MaxTermDays :
           FromDatetime(y, m, d, hour, minute, [name |-> n, days |-> e],
                        config.solar_term_algorithm)

SpecCal == InitCal /\ [][NextCal]_vars

Pillars(c) ==
    {<<c.year_gan, c.year_zhi>>, <<c.month_gan, c.month_zhi>>,
     <<c.day_gan, c.day_zhi>>, <<c.hour_gan, c.hour_zhi>>}

\* C2: each of the four pillars of a record built by from_datetime has a stem
\* index and a branch index of the same parity, so validate_ganzhi accepts it.
C2_PillarParity ==
    cal.built =>
        \A p \in Pillars(cal) :
            /\ (IndexOf(TIAN_GAN, p[1]) % 2) = (IndexOf(DI_ZHI, p[2]) % 2)
            /\ validate_ganzhi(p[1], p[2])

\* A record of a year before the base year (negative offset), in the chou
\* month (month branch below the first month yin), at hour 23.
C2_Witness ==
    /\ cal.built
    /\ cal.year < BaseYear
    /\ cal.month_zhi = "chou"
    /\ cal.hour = 23
    /\ cal.day_gan # "jia"

\* The stem and branch indices of a pillar.
Indices(gz) == <<IndexOf(TIAN_GAN, gz[1]), IndexOf(DI_ZHI, gz[2])>>

\* The pillar of the date n days after (before, for negative n) a date.
DayPillarAfter(y, m, d, n) ==
    LET date == FromOrdinal(ToOrdinal(y, m, d) + n)
    IN Indices(calculate_day_ganzhi(date[1], date[2], date[3]))

\* C13: the year pillar of 1984 has indices (0, 0) and the year pillar repeats
\* every 60 years, before 1984 too; the day pillar of 1900-01-01 has indices
\* (0, 10), is the same at every time of the day, moves both indices by one
\* from one day to the next and repeats every 60 days.
C13_SexagenaryCycles ==
    /\ Indices(calculate_year_ganzhi(1984)) = <<0, 0>>
    /\ Indices(calculate_day_ganzhi(1900, 1, 1)) = <<0, 10>>
    /\ cal.built =>
           LET yp == calculate_year_ganzhi(cal.year)
               dp == Indices(calculate_day_ganzhi(cal.year, cal.month, cal.day))
           IN /\ <<cal.year_gan, cal.year_zhi>> = yp
              /\ \A k \in -2..2 : calculate_year_ganzhi(cal.year + 60 * k) = yp
              /\ Indices(<<cal.day_gan, cal.day_zhi>>) = dp
              /\ DayPillarAfter(cal.year, cal.month, cal.day, 1) = <<(dp[1] + 1) % 10, (dp[2] + 1) % 12>>
              /\ DayPillarAfter(cal.year, cal.month, cal.day, -1) = <<(dp[1] - 1) % 10, (dp[2] - 1) % 12>>
              /\ \A k \in {-60, 60} : DayPillarAfter(cal.year, cal.month, cal.day, k) = dp

\* A record of the last hour of 1 January of a year before 1984: the day
\* before it lies in the previous year.
C13_Witness ==
    /\ cal.built
    /\ cal.year < BaseYear
    /\ cal.month = 1
    /\ cal.day = 1
    /\ cal.hour = 23

\* C20: the month stem of a record follows the five-tiger rule: with base
\* bing (2) for the year stems jia and ji, wu (4) for yi and geng, geng (6) for
\* bing and xin, ren (8) for ding and ren, and jia (0) for wu and gui, the
\* month stem index is (base + month branch index - 2) mod 10; so the year
\* five years later, whose stem differs by 5, has the same month stem in the
\* same month branch.
C20_FiveTigerRule ==
    cal.built =>
        LET year_gan_index == IndexOf(TIAN_GAN, cal.year_gan)
            month_zhi_index == IndexOf(DI_ZHI, cal.month_zhi)
            base == At(<<2, 4, 6, 8, 0>>, year_gan_index % 5)
        IN /\ IndexOf(TIAN_GAN, cal.month_gan) = (base + month_zhi_index - 2) % 10
           /\ calculate_month_ganzhi(cal.year + 5, cal.month, cal.solar_term, TRUE)
                  = <<cal.month_gan, cal.month_zhi>>

(***************************************************************************)
(* ju.py: the chart number.                                                 *)
(***************************************************************************)
\* The last index that is_yang_dune counts as Yang from below ("<= 11").
LastYangIndex == 11

\* The index from which is_yang_dune counts as Yang again (">= 23").
FirstYangIndex == 23

is_yang_dune(c) ==
    IF c.solar_term_index >= FirstYangIndex \/ c.solar_term_index <= LastYangIndex
    THEN TRUE ELSE FALSE

\* Hour-branch numbers counted from 0, as the indices of DI_ZHI are.
get_shi_chen_number_ZeroBased(hour_zhi) ==
    IF hour_zhi \in Range(DI_ZHI) THEN IndexOf(DI_ZHI, hour_zhi) ELSE 1

\* shi_chen_nums.get(hour_zhi, 1): zi = 1 ... hai = 12
get_shi_chen_number(hour_zhi) ==
    IF hour_zhi \in Range(DI_ZHI) THEN IndexOf(DI_ZHI, hour_zhi) + 1 ELSE 1

\* A chart number without the remapping of the residue 0 to 9.
calculate_ju_number_chabu_NoRemap(c, is_yang) ==
    LET shi_chen_num == get_shi_chen_number(c.hour_zhi)
    IN IF is_yang THEN (c.yuan_shou + shi_chen_num - 1) % 9
       ELSE (c.yuan_shou - shi_chen_num + 1) % 9

calculate_ju_number_chabu(c, is_yang) ==
    LET yuan_shou == c.yuan_shou
        shi_chen_num == get_shi_chen_number(c.hour_zhi)
        base_ju == IF is_yang THEN (yuan_shou + shi_chen_num - 1) % 9
                   ELSE (yuan_shou - shi_chen_num + 1) % 9
    IN IF base_ju = 0 THEN 9 ELSE base_ju

\* A chart index whose Yin half counts down from 17.
calculate_ju_index_huopan_YinDescending(c, is_yang) ==
    LET base_index == (c.solar_term_index * 2 + IndexOf(TIAN_GAN, c.day_gan)
                       + IndexOf(DI_ZHI, c.day_zhi) + IndexOf(DI_ZHI, c.hour_zhi)) % 18
    IN IF is_yang THEN base_index % 9 ELSE 17 - (base_index % 9)

calculate_ju_index_huopan(c, is_yang) ==
    LET day_gan_num == IndexOf(TIAN_GAN, c.day_gan)
        day_zhi_num == IndexOf(DI_ZHI, c.day_zhi)
        hour_zhi_num == IndexOf(DI_ZHI, c.hour_zhi)
        base_index == (c.solar_term_index * 2 + day_gan_num + day_zhi_num + hour_zhi_num) % 18
    IN IF is_yang THEN base_index % 9 ELSE 9 + (base_index % 9)

get_ju_chabu(c) ==
    LET is_yang == is_yang_dune(c)
    IN <<calculate_ju_number_chabu(c, is_yang), is_yang>>

get_ju_huopan(c) ==
    LET is_yang == is_yang_dune(c)
        ju_index == calculate_ju_index_huopan(c, is_yang)
    IN <<(ju_index % 9) + 1, is_yang>>

\* get_ju(cal, mode): every mode other than "chabu" (拆补) takes the else branch.
get_ju(c, mode) == IF mode = "chabu" THEN get_ju_chabu(c) ELSE get_ju_huopan(c)

get_seasonal_ju_range(month) ==
    IF month \in {2, 3, 4} THEN <<1, 3>>
    ELSE IF month \in {5, 6, 7} THEN <<4, 6>>
    ELSE IF month \in {8, 9, 10} THEN <<7, 9>>
    ELSE <<1, 3>>

\* validate_ju(ju_number, is_yang, cal): the seasonal check tolerates a miss.
validate_ju(ju_number, is_yang, c) ==
    IF ~(1 <= ju_number /\ ju_number <= 9) THEN FALSE
    ELSE IF is_yang # is_yang_dune(c) THEN FALSE
    ELSE LET r == get_seasonal_ju_range(c.month)
         IN IF ~(r[1] <= ju_number /\ ju_number <= r[2]) THEN TRUE ELSE TRUE

JuModes == {"chabu", "huopan"}

\* The names ConfigManager._validate_config accepts for default_ju_mode:
\* 活盘, 拆补, 时家, 日家.
ConfigJuModes == {"huopan", "chabu", "shijia", "rijia"}

\* The months the records of the chart-number specification carry: one of the
\* (1, 3) season and one of the (7, 9) season.
JuMonths == {1, 8}

\* The CalendarInfo fields that get_ju and validate_ju read.
JuRecords ==
    [built : {TRUE}, month : JuMonths, solar_term_index : 0..23, yuan_shou : 1..6,
     day_gan : Range(TIAN_GAN), day_zhi : Range(DI_ZHI), hour_zhi : Range(DI_ZHI)]

\* get_ju(cal, mode) followed by validate_ju on what it returned.
GetJu(mode) ==
    /\ juRet.op = None
    /\ LET r == get_ju(cal, mode)
       IN juRet' = [op |-> "get_ju", mode |-> mode, ju_number |-> r[1], is_yang |-> r[2],
                    valid |-> validate_ju(r[1], r[2], cal), raised |-> FALSE]
    /\ UNCHANGED <<config, cal, rulesVars, palaceVars, cacheVars, astroVars, qimenCacheVars>>

InitJu ==
    /\ config = DefaultConfig
    /\ cal \in JuRecords
    /\ juRet = NoJu
    /\ plugins = <<>>
    /\ applyRet = NoCall
    /\ board = NoBoard
    /\ InitNoCache

NextJu == \E mode \in JuModes \cup ConfigJuModes : GetJu(mode)

SpecJu == InitJu /\ [][NextJu]_vars

\* C3: for every record and both modes, get_ju returns a chart number in 1..9
\* and a polarity that is Yang exactly for solar term index 23 or 0..11, and
\* validate_ju accepts the result.
C3_JuRangeAndPolarity ==
    juRet.op = "get_ju" =>
        /\ juRet.ju_number \in 1..9
        /\ juRet.is_yang = (cal.solar_term_index = 23 \/ cal.solar_term_index \in 0..11)
        /\ juRet.valid

\* The boundary cases: index 23 with a Yang result, index 12 with a Yin
\* result whose chabu residue is negative before the modulo (yuan_shou 1,
\* hour branch hai), and a chabu residue 0 reported as 9.
C3_Witness ==
    /\ juRet.op = "get_ju"
    /\ juRet.mode = "chabu"
    /\ cal.solar_term_index = 12
    /\ ~juRet.is_yang
    /\ cal.yuan_shou = 1
    /\ cal.hour_zhi = "hai"
    /\ juRet.ju_number = 8

\* C11: get_ju called with a mode name that is neither chabu (拆补) nor huopan
\* (活盘) fails with an error and returns no chart number.
C11_UnknownModeRejected ==
    (juRet.op = "get_ju" /\ juRet.mode \notin JuModes) => juRet.raised

\* C15: the polarity follows the solar term by name, with the names indexed as
\* in SOLAR_TERMS: get_ju reports Yang for a record whose solar term is dongzhi
\* (冬至) and Yin for a record whose solar term is xiaoshu (小暑).
C15_PolarityByTermName ==
    juRet.op = "get_ju" =>
        LET solar_term == At(SOLAR_TERMS, cal.solar_term_index)
        IN /\ solar_term = "dongzhi" => juRet.is_yang
           /\ solar_term = "xiaoshu" => ~juRet.is_yang

\* C22: the huopan (活盘) chart number does not depend on the polarity: it is
\* ((2 * solar_term_index + day stem index + day branch index + hour branch
\* index) mod 9) + 1; the intermediate index is in 0..8 for Yang and in 9..17
\* for Yin; and the polarity returned is is_yang_dune of the record.
C22_HuopanNumber ==
    (juRet.op = "get_ju" /\ juRet.mode = "huopan") =>
        LET sum == 2 * cal.solar_term_index + IndexOf(TIAN_GAN, cal.day_gan)
                   + IndexOf(DI_ZHI, cal.day_zhi) + IndexOf(DI_ZHI, cal.hour_zhi)
            ju_index == calculate_ju_index_huopan(cal, juRet.is_yang)
        IN /\ juRet.ju_number = (sum % 9) + 1
           /\ juRet.is_yang => ju_index \in 0..8
           /\ ~juRet.is_yang => ju_index \in 9..17
           /\ juRet.is_yang = is_yang_dune(cal)

\* A huopan call on a Yin record whose sum is 9 or more modulo 18, so that
\* the modulo 18 of the code drops a 9 before the modulo 9.
C22_Witness ==
    /\ juRet.op = "get_ju"
    /\ juRet.mode = "huopan"
    /\ ~juRet.is_yang
    /\ (2 * cal.solar_term_index + IndexOf(TIAN_GAN, cal.day_gan)
        + IndexOf(DI_ZHI, cal.day_zhi) + IndexOf(DI_ZHI, cal.hour_zhi)) % 18 >= 9
    /\ juRet.ju_number = 9

\* C23: the chabu (拆补) chart number, for yuan_shou y in 1..6 and hour-branch
\* number s in 1..12 (zi = 1 ... hai = 12), is the non-negative residue modulo
\* 9 of y + s - 1 for Yang and of y - s + 1 for Yin, with the residue 0
\* reported as 9; it is in 1..9 also when y - s + 1 is negative.
C23_ChabuNumber ==
    (juRet.op = "get_ju" /\ juRet.mode = "chabu") =>
        LET y == cal.yuan_shou
            s == IndexOf(DI_ZHI, cal.hour_zhi) + 1
            raw == IF juRet.is_yang THEN y + s - 1 ELSE y - s + 1
            residue == CHOOSE r \in 0..8 : \E k \in -2..2 : raw = 9 * k + r
        IN /\ juRet.ju_number = (IF residue = 0 THEN 9 ELSE residue)
           /\ juRet.ju_number \in 1..9

\* A Yin chabu call with y - s + 1 = -9 (yuan_shou 1, hour branch xu): a
\* negative value whose residue is 0, reported as 9.
C23_Witness ==
    /\ juRet.op = "get_ju"
    /\ juRet.mode = "chabu"
    /\ ~juRet.is_yang
    /\ cal.yuan_shou = 1
    /\ cal.hour_zhi = "xu"
    /\ juRet.ju_number = 9

(***************************************************************************)
(* palace.py: PalaceEngine.                                                 *)
(*                                                                          *)
(* data/palace_18.json is not part of the repository, so _load_palace_data  *)
(* falls back to _get_default_palace_data, whose "palaces" table is empty.  *)
(***************************************************************************)
base_sequence == <<"wu", "ji", "geng", "xin", "ren", "gui", "ding", "bing", "yi">>

men_sequence ==
    <<"xiumen", "simen", "shangmen", "dumen", "zhongmen", "kaimen", "jingmen", "shengmen",
      "jing3men">>

xing_sequence ==
    <<"tianpeng", "tianren", "tianchong", "tianfu", "tianqin", "tianxin", "tianzhu",
      "tianying", "tianrui">>

shen_sequence ==
    <<"zhifu", "tengshe", "taiyin", "liuhe", "baihu", "xuanwu", "jiudi", "jiutian",
      "taichang">>

\* str(gong_num) for the palace numbers.
GongStr(gong_num) == At(<<"1", "2", "3", "4", "5", "6", "7", "8", "9">>, gong_num - 1)

\* _get_default_palace_data()["palaces"]: the keys of the static layouts.
palace_data_palaces == {}

\* f"{dun_type}{ju_number}局"
JuName(ju_number, is_yang) == <<IF is_yang THEN "yangdun" ELSE "yindun", ju_number>>

\* The keys of the palaces dict built by the loop over range(1, 10), and the
\* palace number a key stands for.
GongKeys == {GongStr(g) : g \in 1..9}

GongNum(k) == CHOOSE g \in 1..9 : GongStr(g) = k

_calculate_turn_pan(ju_number, is_yang) ==
    LET offset == IF is_yang THEN ju_number - 1 ELSE 9 - ju_number
        gans == IF is_yang THEN base_sequence ELSE Reversed(base_sequence)
        mens == IF is_yang THEN men_sequence ELSE Reversed(men_sequence)
        xings == IF is_yang THEN xing_sequence ELSE Reversed(xing_sequence)
        shens == IF is_yang THEN shen_sequence ELSE Reversed(shen_sequence)
        Cell(gong_num) ==
            LET idx == (gong_num - 1 + offset) % 9
            IN [gong_num |-> gong_num, gan |-> At(gans, idx), men |-> At(mens, idx),
                xing |-> At(xings, idx), shen |-> At(shens, idx)]
    IN [mode |-> "turn", ju_number |-> ju_number, is_yang |-> is_yang,
        ju_name |-> JuName(ju_number, is_yang), palaces |-> [k \in GongKeys |-> Cell(GongNum(k))],
        calendar_info |-> None]

\* turn_pan with a static layout present: base_info.get(field, "") per palace.
\* No layout is loaded, so every field defaults to the empty string.
StaticTurnPan(ju_number, is_yang) ==
    LET Cell(gong_num) ==
            [gong_num |-> gong_num, gan |-> "", men |-> "", xing |-> "", shen |-> ""]
    IN [mode |-> "turn", ju_number |-> ju_number, is_yang |-> is_yang,
        ju_name |-> JuName(ju_number, is_yang), palaces |-> [k \in GongKeys |-> Cell(GongNum(k))],
        calendar_info |-> None]

turn_pan(ju_number, is_yang) ==
    IF JuName(ju_number, is_yang) \notin palace_data_palaces
    THEN _calculate_turn_pan(ju_number, is_yang)
    ELSE StaticTurnPan(ju_number, is_yang)

_calculate_fly_start_gong(year_gan, month_zhi, day_gan, hour_zhi) ==
    LET start_pos == (year_gan + month_zhi + day_gan + hour_zhi) % 9
    IN IF start_pos # 0 THEN start_pos ELSE 9

\* A fly position that wraps one palace too early.
_calculate_fly_position_Mod8(start_gong, gong_num) ==
    LET fly_pos == (start_gong + gong_num - 1) % 8
    IN IF fly_pos # 0 THEN fly_pos ELSE 9

_calculate_fly_position(start_gong, gong_num) ==
    LET fly_pos == (start_gong + gong_num - 1) % 9
    IN IF fly_pos # 0 THEN fly_pos ELSE 9

_get_fly_gan(fly_pos) == At(base_sequence, fly_pos - 1)
_get_fly_men(fly_pos) == At(men_sequence, fly_pos - 1)
_get_fly_xing(fly_pos) == At(xing_sequence, fly_pos - 1)
_get_fly_shen(fly_pos) == At(shen_sequence, fly_pos - 1)

fly_pan(c) ==
    LET start_gong ==
            _calculate_fly_start_gong(IndexOf(TIAN_GAN, c.year_gan), IndexOf(DI_ZHI, c.month_zhi),
                                      IndexOf(TIAN_GAN, c.day_gan), IndexOf(DI_ZHI, c.hour_zhi))
        Cell(gong_num) ==
            LET fly_pos == _calculate_fly_position(start_gong, gong_num)
            IN [gong_num |-> gong_num, gan |-> _get_fly_gan(fly_pos), men |-> _get_fly_men(fly_pos),
                xing |-> _get_fly_xing(fly_pos), shen |-> _get_fly_shen(fly_pos)]
    IN [mode |-> "fly", ju_number |-> 0, is_yang |-> TRUE, ju_name |-> <<"feipan", 0>>,
        palaces |-> [k \in GongKeys |-> Cell(GongNum(k))], calendar_info |-> c]

\* validate_palace: nine entries, each with non-empty gan, men, xing and shen.
validate_palace(b) ==
    IF Cardinality(DOMAIN b.palaces) # 9 THEN FALSE
    ELSE \A k \in DOMAIN b.palaces :
            /\ b.palaces[k].gan # ""
            /\ b.palaces[k].men # ""
            /\ b.palaces[k].xing # ""
            /\ b.palaces[k].shen # ""

\* The CalendarInfo fields that fly_pan reads.
PalaceRecords ==
    [built : {TRUE}, year_gan : Range(TIAN_GAN), month_zhi : Range(DI_ZHI),
     day_gan : Range(TIAN_GAN), hour_zhi : Range(DI_ZHI)]

\* The value of a scan that found no palace (Python's None).
NoPalace == [gong_num |-> NoneInt]

\* for palace_info in nine_palace["palaces"].values(): if palace_info[field]
\* == value: return palace_info -- from the palace numbered gong_num on, in
\* the insertion order "1".."9" of the dict; return None after the loop.
RECURSIVE ScanPalaces(_, _, _, _)
ScanPalaces(nine_palace, field, value, gong_num) ==
    IF gong_num > 9 THEN NoPalace
    ELSE IF nine_palace.palaces[GongStr(gong_num)][field] = value
         THEN nine_palace.palaces[GongStr(gong_num)]
         ELSE ScanPalaces(nine_palace, field, value, gong_num + 1)

\* A scan that looks at palace "1" only.
find_zhi_fu_FirstOnly(nine_palace) ==
    IF nine_palace.palaces["1"].shen = "zhifu" THEN nine_palace.palaces["1"] ELSE NoPalace

\* PalaceEngine.find_zhi_fu(nine_palace)
find_zhi_fu(nine_palace) == ScanPalaces(nine_palace, "shen", "zhifu", 1)

\* WangShuaiPlugin._get_yong_shen_gong and YingQiPlugin._get_yong_shen_gong:
\* the palace whose gan is the day stem.
_get_yong_shen_gong(nine_palace, c) == ScanPalaces(nine_palace, "gan", c.day_gan, 1)

\* YingQiPlugin._calculate_ying_qi_time(palace_info, cal)
_calculate_ying_qi_time(palace_info) ==
    IF palace_info.gong_num <= 3 THEN "jinqi"
    ELSE IF palace_info.gong_num <= 6 THEN "zhongqi" ELSE "yuanqi"

\* WangShuaiPlugin.apply: the yong shen (用神) finding when its palace is found,
\* then one seasonal finding per palace.  A finding is [kind, gong_num]: which
\* sentence it is and the palace it names; the affinity and season words in
\* it (five-element tables of symbols.py) are left out.
WangShuaiPlugin_apply(nine_palace, c) ==
    LET yong_shen_gong == _get_yong_shen_gong(nine_palace, c)
    IN (IF yong_shen_gong # NoPalace
        THEN <<[kind |-> "yongshen", gong_num |-> yong_shen_gong.gong_num]>>
        ELSE <<>>)
       \o [g \in 1..9 |-> [kind |-> "wangshuai", gong_num |-> g]]

\* YingQiPlugin._analyze_time_ying_qi: the timing (应期时间) estimate.
_analyze_time_ying_qi(nine_palace, c) ==
    LET yong_shen_gong == _get_yong_shen_gong(nine_palace, c)
    IN IF yong_shen_gong # NoPalace
       THEN <<[kind |-> "yingqishijian", time |-> _calculate_ying_qi_time(yong_shen_gong)]>>
       ELSE <<>>

\* YingQiPlugin._analyze_direction_ying_qi: one finding naming the palaces of
\* the doors kaimen, shengmen and xiumen, if there is any.
_analyze_direction_ying_qi(nine_palace, c) ==
    LET favorable_directions ==
            {g \in 1..9 : nine_palace.palaces[GongStr(g)].men \in {"kaimen", "shengmen", "xiumen"}}
    IN IF favorable_directions # {}
       THEN <<[kind |-> "youlifangwei", gongs |-> favorable_directions]>>
       ELSE <<>>

\* YingQiPlugin.apply
YingQiPlugin_apply(nine_palace, c) ==
    _analyze_time_ying_qi(nine_palace, c) \o _analyze_direction_ying_qi(nine_palace, c)

\* One board is built in a run: turn_pan or fly_pan, once.
TurnPan(ju_number, is_yang) ==
    /\ board = NoBoard
    /\ board' = turn_pan(ju_number, is_yang)
    /\ UNCHANGED <<calVars, rulesVars, cacheVars, astroVars, qimenCacheVars>>

FlyPan ==
    /\ board = NoBoard
    /\ board' = fly_pan(cal)
    /\ UNCHANGED <<calVars, rulesVars, cacheVars, astroVars, qimenCacheVars>>

\* palace_engine.find_zhi_fu(nine_palace) on the board built before.
FindZhiFu ==
    /\ board # NoBoard
    /\ ~applyRet.called
    /\ applyRet' = [called |-> TRUE, op |-> "find_zhi_fu", r |-> find_zhi_fu(board)]
    /\ UNCHANGED <<plugins, calVars, palaceVars, cacheVars, astroVars, qimenCacheVars>>

\* apply_all(nine_palace, cal) of an engine that holds a WangShuaiPlugin and a
\* YingQiPlugin; neither raises.
AnalyzeBoard ==
    /\ board # NoBoard
    /\ ~applyRet.called
    /\ applyRet' = [called |-> TRUE, op |-> "apply_all",
                    results |-> [wangshuai |-> WangShuaiPlugin_apply(board, cal),
                                 yingqi |-> YingQiPlugin_apply(board, cal)]]
    /\ UNCHANGED <<plugins, calVars, palaceVars, cacheVars, astroVars, qimenCacheVars>>

InitPalace ==
    /\ config = DefaultConfig
    /\ cal \in PalaceRecords
    /\ juRet = NoJu
    /\ plugins = <<>>
    /\ applyRet = NoCall
    /\ board = NoBoard
    /\ InitNoCache

NextPalace ==
    \/ \E ju_number \in 1..9, is_yang \in BOOLEAN : TurnPan(ju_number, is_yang)
    \/ FlyPan
    \/ FindZhiFu
    \/ AnalyzeBoard

SpecPalace == InitPalace /\ [][NextPalace]_vars

\* The fly-plate built from records that carry a solar term: every term index
\* and day stem, one value of the other fields that fly_pan reads.
FlyRecords ==
    [built : {TRUE}, year_gan : {"jia"}, month_zhi : {"yin"}, day_gan : Range(TIAN_GAN),
     hour_zhi : {"zi", "wu"}, solar_term_index : 0..23]

InitFlyPan ==
    /\ config = DefaultConfig
    /\ cal \in FlyRecords
    /\ juRet = NoJu
    /\ plugins = <<>>
    /\ applyRet = NoCall
    /\ board = NoBoard
    /\ InitNoCache

NextFlyPan == FlyPan

SpecFlyPan == InitFlyPan /\ [][NextFlyPan]_vars

Column(b, f) == {b.palaces[k][f] : k \in DOMAIN b.palaces}

IsPermutationColumn(b, f, seq) ==
    /\ Column(b, f) = Range(seq)
    /\ \A k1, k2 \in DOMAIN b.palaces : b.palaces[k1][f] = b.palaces[k2][f] => k1 = k2

\* C4: every board of the computed rotation and of the fly-plate has exactly
\* the palace keys "1".."9", each of its four columns is a permutation of its
\* base sequence, and validate_palace accepts it.
C4_BoardCompleteness ==
    board # NoBoard =>
        /\ DOMAIN board.palaces = {"1", "2", "3", "4", "5", "6", "7", "8", "9"}
        /\ IsPermutationColumn(board, "gan", base_sequence)
        /\ IsPermutationColumn(board, "men", men_sequence)
        /\ IsPermutationColumn(board, "xing", xing_sequence)
        /\ IsPermutationColumn(board, "shen", shen_sequence)
        /\ validate_palace(board)

\* A fly-plate board whose start palace is 9 (the residue 0 remapped).
C4_Witness ==
    /\ board # NoBoard
    /\ board.mode = "fly"
    /\ board.palaces["1"].shen = "taichang"
    /\ board.palaces["2"].shen = "zhifu"

\* C24: in every board of the computed rotation (chart numbers 1..9, either
\* polarity) and of the fly-plate (any start palace), exactly one palace holds
\* the deity zhifu (直符); find_zhi_fu returns that palace, never none; and that
\* palace holds the stem wu (戊) and the star tianpeng (天蓬).
C24_ZhiFuPalace ==
    (applyRet.called /\ applyRet.op = "find_zhi_fu") =>
        /\ Cardinality({k \in DOMAIN board.palaces : board.palaces[k].shen = "zhifu"}) = 1
        /\ applyRet.r # NoPalace
        /\ \E k \in DOMAIN board.palaces :
               /\ board.palaces[k].shen = "zhifu"
               /\ applyRet.r = board.palaces[k]
        /\ applyRet.r.gan = "wu"
        /\ applyRet.r.xing = "tianpeng"

\* find_zhi_fu on a Yin board of the computed rotation whose zhifu palace is
\* the last one scanned.
C24_Witness ==
    /\ applyRet.called
    /\ applyRet.op = "find_zhi_fu"
    /\ board.mode = "turn"
    /\ ~board.is_yang
    /\ applyRet.r.gong_num = 9

\* C26: the board fly_pan returns carries an is_yang flag equal to
\* is_yang_dune of the CalendarRecord it was built from, and a chart number
\* within 1..9.
C26_FlyPanPolarity ==
    (board # NoBoard /\ board.mode = "fly") =>
        /\ board.is_yang = is_yang_dune(board.calendar_info)
        /\ board.ju_number \in 1..9

\* C27: for every record (each of the ten day stems) and every board of the
\* computed rotation or the fly-plate, exactly one palace carries the day
\* stem, so the strength plugin emits exactly one yong shen (用神) finding and
\* the timing plugin exactly one timing (应期时间) estimate.
C27_OneYongShenFinding ==
    (applyRet.called /\ applyRet.op = "apply_all") =>
        LET Count(messages, kind) ==
                Cardinality({i \in 1..Len(messages) : messages[i].kind = kind})
        IN /\ Cardinality({k \in DOMAIN board.palaces : board.palaces[k].gan = cal.day_gan}) = 1
           /\ Count(applyRet.results.wangshuai, "yongshen") = 1
           /\ Count(applyRet.results.yingqi, "yingqishijian") = 1

(***************************************************************************)
(* cache.py: ThreadSafeLRUCache.                                            *)
(*                                                                          *)
(* The cache is the record [max_size, default_ttl, cache, nxt, prv]: cache  *)
(* is the dict _cache (key -> the value and expire_time of its node), nxt   *)
(* and prv are the next and prev fields of the nodes.  The node stored      *)
(* under a key is named by the key; the two sentinels are _head and _tail.    *)
(* Time is counted in whole seconds.                                        *)
(***************************************************************************)
MaxSize == 2
MaxTime == 2


Keys == {"k1", "k2"}
Values == {"v1", "v2"}
Ttls == {NoneInt, 1}

_head == "head"
_tail == "tail"
Nodes == Keys \cup {_head, _tail}

\* ThreadSafeLRUCache.__init__
ThreadSafeLRUCache(max_size, default_ttl) ==
    [max_size |-> max_size, default_ttl |-> default_ttl, cache |-> EmptyDict,
     nxt |-> [n \in Nodes |-> IF n = _head THEN _tail ELSE None],
     prv |-> [n \in Nodes |-> IF n = _tail THEN _head ELSE None]]

\* The nodes met from n along ptr before stop, at most fuel of them.
RECURSIVE Walk(_, _, _, _)
Walk(ptr, n, stop, fuel) ==
    IF n = stop \/ n = None \/ fuel = 0 THEN <<>> ELSE <<n>> \o Walk(ptr, ptr[n], stop, fuel - 1)

\* The LRU list read from the head forwards, and from the tail backwards.
ListFwd(c) == Walk(c.nxt, c.nxt[_head], _tail, Cardinality(DOMAIN c.nxt))
ListBwd(c) == Walk(c.prv, c.prv[_tail], _head, Cardinality(DOMAIN c.prv))

\* A node that neither the dict nor the list refers to is garbage: its fields
\* are gone with it.
Collect(c) ==
    LET live == (DOMAIN c.cache) \cup Range(ListFwd(c)) \cup Range(ListBwd(c)) \cup {_head, _tail}
    IN [c EXCEPT !.nxt = [n \in DOMAIN c.nxt |-> IF n \in live THEN c.nxt[n] ELSE None],
                 !.prv = [n \in DOMAIN c.prv |-> IF n \in live THEN c.prv[n] ELSE None]]

\* del d[k]
DictDel(d, k) == [x \in (DOMAIN d) \ {k} |-> d[x]]

\* _add_node, statement by statement.
_add_node(c, node) ==
    LET c1 == [c EXCEPT !.prv[node] = _head]
        c2 == [c1 EXCEPT !.nxt[node] = c1.nxt[_head]]
        c3 == IF c2.nxt[_head] # None THEN [c2 EXCEPT !.prv[c2.nxt[_head]] = node] ELSE c2
    IN [c3 EXCEPT !.nxt[_head] = node]

\* _remove_node, statement by statement; the node keeps its own pointers.
_remove_node(c, node) ==
    LET c1 == IF c.prv[node] # None THEN [c EXCEPT !.nxt[c.prv[node]] = c.nxt[node]] ELSE c
    IN IF c1.nxt[node] # None THEN [c1 EXCEPT !.prv[c1.nxt[node]] = c1.prv[node]] ELSE c1

_move_to_head(c, node) == _add_node(_remove_node(c, node), node)

\* A _pop_tail that takes the node next to the head, the most recently used.
_pop_tail_Newest(c) ==
    LET first_node == c.nxt[_head]
    IN IF first_node # None /\ first_node # _tail
       THEN [c |-> _remove_node(c, first_node), node |-> first_node]
       ELSE [c |-> c, node |-> None]

\* _pop_tail: the cache afterwards and the node returned (None if the list is empty).
_pop_tail(c) ==
    LET last_node == c.prv[_tail]
    IN IF last_node # None /\ last_node # _head
       THEN [c |-> _remove_node(c, last_node), node |-> last_node]
       ELSE [c |-> c, node |-> None]

\* An expiry test that never finds a node expired.
_is_expired_Never(node, t) == FALSE

\* _is_expired at time t.
_is_expired(node, t) == IF node.expire_time = NoneInt THEN FALSE ELSE t > node.expire_time

\* ThreadSafeLRUCache.delete: the cache afterwards (c) and the return value (r).
ThreadSafeLRUCache_delete(c, key) ==
    IF key \in DOMAIN c.cache
    THEN LET c1 == _remove_node(c, key)
         IN [c |-> Collect([c1 EXCEPT !.cache = DictDel(c1.cache, key)]), r |-> TRUE]
    ELSE [c |-> c, r |-> FALSE]

\* ThreadSafeLRUCache.get at time t.
ThreadSafeLRUCache_get(c, key, t) ==
    IF key \notin DOMAIN c.cache THEN [c |-> c, r |-> None]
    ELSE IF _is_expired(c.cache[key], t) THEN [c |-> ThreadSafeLRUCache_delete(c, key).c, r |-> None]
    ELSE [c |-> _move_to_head(c, key), r |-> c.cache[key].value]

\* The expire_time that set computes at time t.
ExpireTime(c, ttl, t) ==
    IF ttl # NoneInt THEN t + ttl
    ELSE IF c.default_ttl # NoneInt THEN t + c.default_ttl
    ELSE NoneInt

\* The else branch of set from the capacity check on: evict the tail.
EvictIfOver(c) ==
    IF Cardinality(DOMAIN c.cache) > c.max_size
    THEN LET p == _pop_tail(c)
         IN IF p.node # None THEN Collect([p.c EXCEPT !.cache = DictDel(p.c.cache, p.node)]) ELSE p.c
    ELSE c

\* ThreadSafeLRUCache.set at time t.
ThreadSafeLRUCache_set(c, key, value, ttl, t) ==
    LET node == [value |-> value, expire_time |-> ExpireTime(c, ttl, t)]
    IN IF key \in DOMAIN c.cache
       THEN [c |-> _move_to_head([c EXCEPT !.cache[key] = node], key), r |-> TRUE]
       ELSE [c |-> EvictIfOver(_add_node([c EXCEPT !.cache = DictSet(c.cache, key, node)], key)), r |-> TRUE]

\* ThreadSafeLRUCache.clear
ThreadSafeLRUCache_clear(c) ==
    [c |-> Collect([c EXCEPT !.cache = EmptyDict, !.nxt[_head] = _tail, !.prv[_tail] = _head]), r |-> TRUE]

\* An exists that counts as a use: a key found is moved to the head.
ThreadSafeLRUCache_exists_Refreshes(c, key, t) ==
    IF key \in DOMAIN c.cache /\ ~_is_expired(c.cache[key], t)
    THEN [c |-> _move_to_head(c, key), r |-> TRUE]
    ELSE [c |-> c, r |-> FALSE]

\* ThreadSafeLRUCache.exists at time t.
ThreadSafeLRUCache_exists(c, key, t) ==
    [c |-> c, r |-> key \in DOMAIN c.cache /\ ~_is_expired(c.cache[key], t)]

\* The first loop of cleanup_expired.
ExpiredKeys(c, t) == {k \in DOMAIN c.cache : _is_expired(c.cache[k], t)}

RECURSIVE DeleteAll(_, _)
DeleteAll(c, keys) ==
    IF keys = {} THEN c
    ELSE LET k == CHOOSE x \in keys : TRUE
         IN DeleteAll(ThreadSafeLRUCache_delete(c, k).c, keys \ {k})

\* ThreadSafeLRUCache.cleanup_expired at time t.
cleanup_expired(c, t) == [c |-> DeleteAll(c, ExpiredKeys(c, t)), r |-> Cardinality(ExpiredKeys(c, t))]

(***************************************************************************)
(* cache.py: RedisCache.                                                    *)
(*                                                                          *)
(* The tier is the record [present, store]: present says whether the        *)
(* MultiLevelCache was given an l2_cache at all, store is the server's key  *)
(* space (key -> the bytes stored and the time the server drops them).      *)
(* Every call takes the flag raises: whether the redis client raises on     *)
(* this call, in which case the server is left as it was.  A call returns   *)
(* the tier afterwards (s), its return value (r) and whether an exception   *)
(* left it (raised).                                                        *)
(***************************************************************************)
\* pickle.dumps and pickle.loads
_serialize(value) == <<"pickle", value>>
_deserialize(data) == data[2]

\* The server holds the key at time t: SETEX drops it ttl seconds after the write.
RedisHolds(s, key, t) ==
    key \in DOMAIN s.store /\ (s.store[key].expire_at = NoneInt \/ t < s.store[key].expire_at)

\* The server's own expiry: the key space at time t.
RedisExpire(s, t) == [s EXCEPT !.store = [k \in {x \in DOMAIN s.store : RedisHolds(s, x, t)} |-> s.store[k]]]

\* RedisCache.delete without its try/except.
RedisCache_delete_NoExcept(s, key, t, raises) ==
    IF raises THEN [s |-> s, r |-> FALSE, raised |-> TRUE]
    ELSE [s |-> [s EXCEPT !.store = DictDel(s.store, key)], r |-> RedisHolds(s, key, t), raised |-> FALSE]

RedisCache_get(s, key, t, raises) ==
    IF raises THEN [s |-> s, r |-> None, raised |-> FALSE]
    ELSE IF ~RedisHolds(s, key, t) THEN [s |-> s, r |-> None, raised |-> FALSE]
    ELSE [s |-> s, r |-> _deserialize(s.store[key].data), raised |-> FALSE]

RedisCache_set(s, key, value, ttl, t, raises) ==
    IF raises THEN [s |-> s, r |-> FALSE, raised |-> FALSE]
    ELSE LET entry == [data |-> _serialize(value), expire_at |-> IF ttl # NoneInt THEN t + ttl ELSE NoneInt]
         IN [s |-> [s EXCEPT !.store = DictSet(s.store, key, entry)], r |-> TRUE, raised |-> FALSE]

RedisCache_delete(s, key, t, raises) ==
    IF raises THEN [s |-> s, r |-> FALSE, raised |-> FALSE]
    ELSE [s |-> [s EXCEPT !.store = DictDel(s.store, key)], r |-> RedisHolds(s, key, t), raised |-> FALSE]

RedisCache_exists(s, key, t, raises) ==
    IF raises THEN [s |-> s, r |-> FALSE, raised |-> FALSE]
    ELSE [s |-> s, r |-> RedisHolds(s, key, t), raised |-> FALSE]

(***************************************************************************)
(* cache.py: MultiLevelCache over the two tiers.  A call returns both tiers *)
(* afterwards (c, s), its return value (r), whether an exception left it    *)
(* (raised) and whether it called the second tier (l2called).               *)
(***************************************************************************)
\* A get that returns what tier 2 holds without writing it back to tier 1.
MultiLevelCache_get_NoWriteBack(c, s, key, t, raises) ==
    LET g1 == ThreadSafeLRUCache_get(c, key, t)
        g2 == RedisCache_get(s, key, t, raises)
    IN IF g1.r # None
       THEN [c |-> g1.c, s |-> s, r |-> g1.r, raised |-> FALSE, l2called |-> FALSE]
       ELSE IF ~s.present
       THEN [c |-> g1.c, s |-> s, r |-> None, raised |-> FALSE, l2called |-> FALSE]
       ELSE [c |-> g1.c, s |-> g2.s, r |-> g2.r, raised |-> g2.raised, l2called |-> TRUE]

MultiLevelCache_get(c, s, key, t, raises) ==
    LET g1 == ThreadSafeLRUCache_get(c, key, t)
        g2 == RedisCache_get(s, key, t, raises)
    IN IF g1.r # None
       THEN [c |-> g1.c, s |-> s, r |-> g1.r, raised |-> FALSE, l2called |-> FALSE]
       ELSE IF ~s.present
       THEN [c |-> g1.c, s |-> s, r |-> None, raised |-> FALSE, l2called |-> FALSE]
       ELSE IF g2.raised
       THEN [c |-> g1.c, s |-> g2.s, r |-> None, raised |-> TRUE, l2called |-> TRUE]
       ELSE IF g2.r # None
       THEN [c |-> ThreadSafeLRUCache_set(g1.c, key, g2.r, NoneInt, t).c, s |-> g2.s, r |-> g2.r,
             raised |-> FALSE, l2called |-> TRUE]
       ELSE [c |-> g1.c, s |-> g2.s, r |-> None, raised |-> FALSE, l2called |-> TRUE]

MultiLevelCache_set(c, s, key, value, ttl, t, raises) ==
    LET s1 == ThreadSafeLRUCache_set(c, key, value, ttl, t)
        s2 == RedisCache_set(s, key, value, ttl, t, raises)
    IN IF ~s.present
       THEN [c |-> s1.c, s |-> s, r |-> s1.r, raised |-> FALSE, l2called |-> FALSE]
       ELSE [c |-> s1.c, s |-> s2.s, r |-> s1.r /\ s2.r, raised |-> s2.raised, l2called |-> TRUE]

MultiLevelCache_delete(c, s, key, t, raises) ==
    LET d1 == ThreadSafeLRUCache_delete(c, key)
        d2 == RedisCache_delete(s, key, t, raises)
    IN IF ~s.present
       THEN [c |-> d1.c, s |-> s, r |-> TRUE, raised |-> FALSE, l2called |-> FALSE]
       ELSE [c |-> d1.c, s |-> d2.s, r |-> d1.r \/ d2.r, raised |-> d2.raised, l2called |-> TRUE]

MultiLevelCache_exists(c, s, key, t, raises) ==
    LET e1 == ThreadSafeLRUCache_exists(c, key, t)
        e2 == RedisCache_exists(s, key, t, raises)
    IN IF e1.r
       THEN [c |-> c, s |-> s, r |-> TRUE, raised |-> FALSE, l2called |-> FALSE]
       ELSE IF ~s.present
       THEN [c |-> c, s |-> s, r |-> FALSE, raised |-> FALSE, l2called |-> FALSE]
       ELSE [c |-> c, s |-> e2.s, r |-> e2.r, raised |-> e2.raised, l2called |-> TRUE]

(***************************************************************************)
(* The caches called one call at a time: every call of ThreadSafeLRUCache   *)
(* and of MultiLevelCache runs to its return before the next starts, and    *)
(* the clock may advance between two calls.  ret describes the last call:   *)
(* its name, key and value arguments, its return value r, whether an        *)
(* exception left it, whether the redis client raised in it, whether it     *)
(* called the second tier, and (after) what the call before it did to the   *)
(* same key of the same cache.                                              *)
(***************************************************************************)
NoRet ==
    [op |-> None, key |-> None, value |-> None, r |-> None, raised |-> FALSE,
     fails |-> FALSE, l2called |-> FALSE, after |-> None]

\* What a get or exists of cache cls learns about the call before it: a set or
\* delete of the same key on the same cache, and whether redis raised in it.
After(cls, key) ==
    IF ret.key # key THEN None
    ELSE IF ret.op = cls \o ".set" THEN "set " \o ret.value
    ELSE IF ret.op = cls \o ".delete" THEN (IF ret.fails THEN "failed delete" ELSE "delete")
    ELSE None

\* A call of the ThreadSafeLRUCache itself; res is what the method did.
LruCall(op, key, value, res) ==
    /\ l1' = res.c
    /\ ret' = [op |-> "lru." \o op, key |-> key, value |-> value, r |-> res.r, raised |-> FALSE,
               fails |-> FALSE, l2called |-> FALSE,
               after |-> IF op \in {"get", "exists"} THEN After("lru", key) ELSE None]
    /\ UNCHANGED <<l2, now, lock, th, rulesVars, calVars, palaceVars, astroVars, qimenCacheVars>>

\* A call of the MultiLevelCache; raises: the redis client raises in this call.
MlCall(op, key, value, res, raises) ==
    /\ l1' = res.c
    /\ l2' = res.s
    /\ ret' = [op |-> "ml." \o op, key |-> key, value |-> value, r |-> res.r, raised |-> res.raised,
               fails |-> raises /\ l2.present, l2called |-> res.l2called,
               after |-> IF op \in {"get", "exists"} THEN After("ml", key) ELSE None]
    /\ UNCHANGED <<now, lock, th, rulesVars, calVars, palaceVars, astroVars, qimenCacheVars>>

LruGet(key) == LruCall("get", key, None, ThreadSafeLRUCache_get(l1, key, now))

LruSet(key, value, ttl) == LruCall("set", key, value, ThreadSafeLRUCache_set(l1, key, value, ttl, now))

LruDelete(key) == LruCall("delete", key, None, ThreadSafeLRUCache_delete(l1, key))

LruExists(key) == LruCall("exists", key, None, ThreadSafeLRUCache_exists(l1, key, now))

LruClear == LruCall("clear", None, None, ThreadSafeLRUCache_clear(l1))

CleanupExpired == LruCall("cleanup_expired", None, None, cleanup_expired(l1, now))

MlGet(key, raises) == MlCall("get", key, None, MultiLevelCache_get(l1, l2, key, now, raises), raises)

MlSet(key, value, ttl, raises) ==
    MlCall("set", key, value, MultiLevelCache_set(l1, l2, key, value, ttl, now, raises), raises)

MlDelete(key, raises) == MlCall("delete", key, None, MultiLevelCache_delete(l1, l2, key, now, raises), raises)

MlExists(key, raises) == MlCall("exists", key, None, MultiLevelCache_exists(l1, l2, key, now, raises), raises)

\* time.time() moves on by a second; the redis server drops what is due.
Tick ==
    /\ now < MaxTime
    /\ now' = now + 1
    /\ l2' = RedisExpire(l2, now + 1)
    /\ ret' = [NoRet EXCEPT !.op = "tick"]
    /\ UNCHANGED <<l1, lock, th, rulesVars, calVars, palaceVars, astroVars, qimenCacheVars>>

InitCache ==
    /\ l1 \in {ThreadSafeLRUCache(m, d) : m \in 1..MaxSize, d \in Ttls}
    /\ l2 \in {[present |-> p, store |-> EmptyDict] : p \in BOOLEAN}
    /\ now = 0
    /\ ret = NoRet
    /\ lock = NoCache
    /\ th = NoCache
    /\ memo = <<>>
    /\ aret = [op |-> None]
    /\ qc = NoCache
    /\ plugins = <<>>
    /\ applyRet = NoCall
    /\ InitOthersOfRules

\* Whether the redis client raises in a call: only a client that is there can.
Raises == IF l2.present THEN BOOLEAN ELSE {FALSE}

NextCache ==
    \/ \E key \in Keys : LruGet(key)
    \/ \E key \in Keys, value \in Values, ttl \in Ttls : LruSet(key, value, ttl)
    \/ \E key \in Keys : LruDelete(key)
    \/ \E key \in Keys : LruExists(key)
    \/ LruClear
    \/ CleanupExpired
    \/ \E key \in Keys, raises \in Raises : MlGet(key, raises)
    \/ \E key \in Keys, value \in Values, ttl \in Ttls, raises \in Raises : MlSet(key, value, ttl, raises)
    \/ \E key \in Keys, raises \in Raises : MlDelete(key, raises)
    \/ \E key \in Keys, raises \in Raises : MlExists(key, raises)
    \/ Tick

SpecCache == InitCache /\ [][NextCache]_vars

\* The list and the dict of the cache hold the same nodes, each once, and the
\* list reads the same in both directions.
ListMatchesDict(c) ==
    /\ Range(ListFwd(c)) = DOMAIN c.cache
    /\ Len(ListFwd(c)) = Cardinality(DOMAIN c.cache)
    /\ ListBwd(c) = Reversed(ListFwd(c))
    /\ c.nxt[IF ListFwd(c) = <<>> THEN _head ELSE ListFwd(c)[Len(ListFwd(c))]] = _tail

(***************************************************************************)
(* ThreadSafeLRUCache called from several threads.  Each method is cut at   *)
(* its statements that change the dict or the list, so that another thread  *)
(* may run between any two of them unless the lock keeps it out.            *)
(*                                                                          *)
(* lock is the RLock [owner, count] with, for the current hold, the number  *)
(* of entries that self.delete has removed (deleted).  th[t] is the frame   *)
(* of thread t: the method it called (op), the statement it is at (pc), the *)
(* arguments key and ttl, the expired_keys still to delete (todo) and the   *)
(* node that _pop_tail returned (tail).  Every set stores the same value.   *)
(***************************************************************************)
Threads == {"t1", "t2"}
Methods == {"get", "set", "delete", "clear", "exists", "cleanup_expired"}

Idle == [op |-> None, pc |-> "idle", key |-> None, ttl |-> NoneInt, todo |-> {}, tail |-> None]
FreeLock == [owner |-> None, count |-> 0, deleted |-> 0]

\* A lock that keeps nobody out.
LockFreeAlways(t) == TRUE

\* threading.RLock: free, or held by the caller itself.
LockFree(t) == lock.owner \in {None, t}

\* Thread t goes to statement pc.
Goto(t, pc) == th' = [th EXCEPT ![t].pc = pc]

\* Thread t calls a method and arrives at its `with self._lock:`.
CallMethod(t, method, key, ttl) ==
    /\ th[t].pc = "idle"
    /\ (key = None) = (method \in {"clear", "cleanup_expired"})
    /\ ttl # NoneInt => method = "set"
    /\ th' = [th EXCEPT ![t] = [Idle EXCEPT !.op = method, !.pc = "with", !.key = key, !.ttl = ttl]]
    /\ UNCHANGED <<l1, l2, now, ret, lock, rulesVars, calVars, palaceVars, astroVars, qimenCacheVars>>

\* Where the method goes once it holds the lock: its lookup and its branch.
FirstStatement(f) ==
    CASE f.op = "get" ->
            IF f.key \notin DOMAIN l1.cache THEN "release"
            ELSE IF _is_expired(l1.cache[f.key], now) THEN "self.delete"
            ELSE "move_remove"
      [] f.op = "set" -> IF f.key \in DOMAIN l1.cache THEN "set_update" ELSE "set_insert"
      [] f.op = "delete" -> IF f.key \in DOMAIN l1.cache THEN "del_remove" ELSE "release"
      [] f.op = "clear" -> "clear_dict"
      [] f.op = "exists" -> "release"
      [] f.op = "cleanup_expired" -> "for"

\* with self._lock: thread t takes the lock of the method it called.
Acquire(t) ==
    /\ th[t].pc = "with"
    /\ LockFree(t)
    /\ lock' = [owner |-> t, count |-> 1, deleted |-> 0]
    /\ th' = [th EXCEPT ![t].pc = FirstStatement(th[t]),
                        ![t].todo = IF th[t].op = "cleanup_expired" THEN ExpiredKeys(l1, now) ELSE {}]
    /\ UNCHANGED <<l1, l2, now, ret, rulesVars, calVars, palaceVars, astroVars, qimenCacheVars>>

\* self.delete(key) called by get or by cleanup_expired: the RLock is taken
\* once more, and delete looks the key up.
NestedDelete(t) ==
    /\ th[t].pc = "self.delete"
    /\ LockFree(t)
    /\ lock' = [lock EXCEPT !.owner = t, !.count = lock.count + 1]
    /\ Goto(t, IF th[t].key \in DOMAIN l1.cache THEN "del_remove" ELSE "del_return")
    /\ UNCHANGED <<l1, l2, now, ret, rulesVars, calVars, palaceVars, astroVars, qimenCacheVars>>

\* The statement of thread t at pc changes the cache to c and goes to next.
Statement(t, pc, c, next) ==
    /\ th[t].pc = pc
    /\ l1' = c
    /\ Goto(t, next)
    /\ UNCHANGED <<l2, now, ret, lock, rulesVars, calVars, palaceVars, astroVars, qimenCacheVars>>

\* _move_to_head: self._remove_node(node)
MoveRemove(t) == Statement(t, "move_remove", _remove_node(l1, th[t].key), "move_add")

\* _move_to_head: self._add_node(node)
MoveAdd(t) == Statement(t, "move_add", _add_node(l1, th[t].key), "release")

\* set: node.value = value; node.expire_time = expire_time
SetUpdate(t) ==
    Statement(t, "set_update",
              [l1 EXCEPT !.cache = DictSet(l1.cache, th[t].key,
                                           [value |-> "v1", expire_time |-> ExpireTime(l1, th[t].ttl, now)])],
              "move_remove")

\* set: self._cache[key] = new_node, a fresh node
SetInsert(t) ==
    Statement(t, "set_insert",
              [l1 EXCEPT !.cache = DictSet(l1.cache, th[t].key,
                                           [value |-> "v1", expire_time |-> ExpireTime(l1, th[t].ttl, now)]),
                         !.nxt[th[t].key] = None, !.prv[th[t].key] = None],
              "set_add")

\* set: self._add_node(new_node), then the capacity check
SetAdd(t) ==
    Statement(t, "set_add", _add_node(l1, th[t].key),
              IF Cardinality(DOMAIN l1.cache) > l1.max_size THEN "set_pop" ELSE "release")

\* set: tail = self._pop_tail()
SetPop(t) ==
    /\ th[t].pc = "set_pop"
    /\ l1' = _pop_tail(l1).c
    /\ th' = [th EXCEPT ![t].tail = _pop_tail(l1).node,
                        ![t].pc = IF _pop_tail(l1).node # None THEN "set_evict" ELSE "release"]
    /\ UNCHANGED <<l2, now, ret, lock, rulesVars, calVars, palaceVars, astroVars, qimenCacheVars>>

\* set: del self._cache[tail.key]
SetEvict(t) ==
    Statement(t, "set_evict", Collect([l1 EXCEPT !.cache = DictDel(l1.cache, th[t].tail)]), "release")

\* delete: self._remove_node(node)
DelRemove(t) == Statement(t, "del_remove", _remove_node(l1, th[t].key), "del_map")

\* delete: del self._cache[key]
DelMap(t) ==
    /\ th[t].pc = "del_map"
    /\ l1' = Collect([l1 EXCEPT !.cache = DictDel(l1.cache, th[t].key)])
    /\ lock' = [lock EXCEPT !.deleted = lock.deleted + 1]
    /\ Goto(t, IF th[t].op = "delete" THEN "release" ELSE "del_return")
    /\ UNCHANGED <<l2, now, ret, rulesVars, calVars, palaceVars, astroVars, qimenCacheVars>>

\* The end of a self.delete(key): its `with` gives the RLock back once, and
\* the caller goes on (get returns, cleanup_expired takes its next key).
DelReturn(t) ==
    /\ th[t].pc = "del_return"
    /\ lock' = [lock EXCEPT !.count = lock.count - 1]
    /\ Goto(t, IF th[t].op = "cleanup_expired" THEN "for" ELSE "release")
    /\ UNCHANGED <<l1, l2, now, ret, rulesVars, calVars, palaceVars, astroVars, qimenCacheVars>>

\* clear: self._cache.clear()
ClearDict(t) == Statement(t, "clear_dict", [l1 EXCEPT !.cache = EmptyDict], "clear_list")

\* clear: self._head.next = self._tail; self._tail.prev = self._head
ClearList(t) ==
    Statement(t, "clear_list", Collect([l1 EXCEPT !.nxt[_head] = _tail, !.prv[_tail] = _head]), "release")

\* cleanup_expired: for key in expired_keys: self.delete(key)
ForExpired(t) ==
    /\ th[t].pc = "for"
    /\ \/ /\ th[t].todo = {}
          /\ Goto(t, "release")
       \/ \E key \in th[t].todo :
              th' = [th EXCEPT ![t].key = key, ![t].todo = th[t].todo \ {key}, ![t].pc = "self.delete"]
    /\ UNCHANGED <<l1, l2, now, ret, lock, rulesVars, calVars, palaceVars, astroVars, qimenCacheVars>>

\* The end of the method's `with self._lock:` and its return.
Release(t) ==
    /\ th[t].pc = "release"
    /\ lock' = FreeLock
    /\ th' = [th EXCEPT ![t] = Idle]
    /\ UNCHANGED <<l1, l2, now, ret, rulesVars, calVars, palaceVars, astroVars, qimenCacheVars>>

InitConc ==
    /\ l1 \in {ThreadSafeLRUCache(m, d) : m \in 1..MaxSize, d \in Ttls}
    /\ l2 = [present |-> FALSE, store |-> EmptyDict]
    /\ now = 0
    /\ ret = NoRet
    /\ lock = FreeLock
    /\ th = [t \in Threads |-> Idle]
    /\ memo = <<>>
    /\ aret = [op |-> None]
    /\ qc = NoCache
    /\ plugins = <<>>
    /\ applyRet = NoCall
    /\ InitOthersOfRules

NextConc ==
    \/ \E t \in Threads, method \in Methods, key \in Keys \cup {None}, ttl \in Ttls : CallMethod(t, method, key, ttl)
    \/ \E t \in Threads : Acquire(t)
    \/ \E t \in Threads : NestedDelete(t)
    \/ \E t \in Threads : MoveRemove(t)
    \/ \E t \in Threads : MoveAdd(t)
    \/ \E t \in Threads : SetUpdate(t)
    \/ \E t \in Threads : SetInsert(t)
    \/ \E t \in Threads : SetAdd(t)
    \/ \E t \in Threads : SetPop(t)
    \/ \E t \in Threads : SetEvict(t)
    \/ \E t \in Threads : DelRemove(t)
    \/ \E t \in Threads : DelMap(t)
    \/ \E t \in Threads : DelReturn(t)
    \/ \E t \in Threads : ClearDict(t)
    \/ \E t \in Threads : ClearList(t)
    \/ \E t \in Threads : ForExpired(t)
    \/ \E t \in Threads : Release(t)
    \/ Tick

SpecConc == InitConc /\ [][NextConc]_vars

\* Thread t is inside a `with self._lock:` block.
InLock(t) == th[t].pc \notin {"idle", "with"}

\* C6: in ThreadSafeLRUCache, under any interleaving of get, set, delete, clear
\* and cleanup_expired calls of several threads, a thread is between the
\* statements of a method only while it owns the lock, and whenever the lock is
\* free the LRU list holds exactly the nodes of the key map, each once.
C6_ListMatchesMapBetweenOperations ==
    /\ \A t \in Threads : InLock(t) => lock.owner = t
    /\ lock.owner = None => ListMatchesDict(l1)

\* One thread is in the middle of an eviction, the list and the map disagree,
\* and the other thread waits at the lock.
C6_Witness ==
    /\ th["t1"].pc = "set_evict"
    /\ ~ListMatchesDict(l1)
    /\ th["t2"].pc = "with"
    /\ th["t2"].op = "get"

\* C7: the sweep (cleanup_expired) never holds the cache lock across the
\* removal of more than one entry.
C7_SweepHoldsLockForOneRemoval ==
    \A t \in Threads : (lock.owner = t /\ th[t].op = "cleanup_expired") => lock.deleted <= 1

(***************************************************************************)
(* Claims about the caches called one call at a time (SpecCache).           *)
(***************************************************************************)
\* The value tier 1 holds for the key at time t, None if it holds none or only
\* an expired one.
L1Value(c, key, t) ==
    IF key \in DOMAIN c.cache /\ (c.cache[key].expire_time = NoneInt \/ t <= c.cache[key].expire_time)
    THEN c.cache[key].value
    ELSE None

\* The value the redis server holds for the key, None if it holds none.
L2Value(s, key) == IF s.present /\ key \in DOMAIN s.store THEN s.store[key].data[2] ELSE None

ExpiredBefore ==
    /\ ret'.key \in DOMAIN l1.cache
    /\ l1.cache[ret'.key].expire_time # NoneInt
    /\ now > l1.cache[ret'.key].expire_time

\* C8 as stated: in ThreadSafeLRUCache an entry whose expiry time has passed is
\* never returned by get nor reported present by exists, and the next access
\* to its key (get or exists) removes it from the key map and the LRU list.
C8_ExpiredRemovedOnAnyAccess ==
    [][(ret'.op \in {"lru.get", "lru.exists"} /\ ExpiredBefore) =>
           /\ ret'.op = "lru.get" => ret'.r = None
           /\ ret'.op = "lru.exists" => ret'.r = FALSE
           /\ ret'.key \notin DOMAIN l1'.cache
           /\ ret'.key \notin Range(ListFwd(l1'))]_vars

\* C8: in ThreadSafeLRUCache an entry whose expiry time has passed is never
\* returned by get nor reported present by exists; the next get of its key
\* removes it from the key map and the LRU list, and an exists of its key
\* leaves the cache as it was, the entry still stored.
C8_ExpiredRemovedOnGet ==
    [][(ret'.op \in {"lru.get", "lru.exists"} /\ ExpiredBefore) =>
           /\ ret'.op = "lru.get" =>
                  /\ ret'.r = None
                  /\ ret'.key \notin DOMAIN l1'.cache
                  /\ ret'.key \notin Range(ListFwd(l1'))
                  /\ ListMatchesDict(l1')
           /\ ret'.op = "lru.exists" => (ret'.r = FALSE /\ l1' = l1)]_vars

\* An exists has just answered false for a key whose expired entry is still
\* in the key map and in the list.
C8_Witness ==
    /\ ret.op = "lru.exists"
    /\ ret.r = FALSE
    /\ ret.key \in DOMAIN l1.cache
    /\ ret.key \in Range(ListFwd(l1))
    /\ _is_expired(l1.cache[ret.key], now)

\* C9: MultiLevelCache.get(k) consults tier 1 first and does not consult tier 2
\* when tier 1 holds k; when tier 1 misses and tier 2 holds k it returns tier
\* 2's value and tier 1 holds k with that value afterwards; it reports a miss
\* only when both tiers miss (a second tier that is absent, or whose call
\* raised, misses).
C9_TierOrder ==
    [][ret'.op = "ml.get" =>
           LET hit1 == L1Value(l1, ret'.key, now)
               hit2 == IF ret'.fails THEN None ELSE L2Value(l2, ret'.key)
           IN /\ hit1 # None => (ret'.r = hit1 /\ ~ret'.l2called /\ l2' = l2)
              /\ (hit1 = None /\ hit2 # None) =>
                     /\ ret'.r = hit2
                     /\ ret'.l2called
                     /\ L1Value(l1', ret'.key, now') = hit2
              /\ (ret'.r = None) = (hit1 = None /\ hit2 = None)]_vars

\* A get has just missed tier 1, found its key in tier 2 and written it back.
C9_Witness ==
    /\ ret.op = "ml.get"
    /\ ret.l2called
    /\ ret.r = "v2"
    /\ L1Value(l1, ret.key, now) = "v2"
    /\ l1.cache[ret.key].expire_time = now + 1

\* C10: when the redis client raises on any call, RedisCache.get returns a
\* miss and RedisCache.set, delete and exists return false, none of them
\* raising or changing the server; MultiLevelCache get, set, delete and exists
\* complete without raising, get returns tier 1's value if present and a miss
\* otherwise, and set and delete still update tier 1.
C10_BackendFailure ==
    [][ret'.fails =>
              /\ RedisCache_get(l2, ret'.key, now, TRUE) = [s |-> l2, r |-> None, raised |-> FALSE]
              /\ \A value \in Values, ttl \in Ttls :
                     RedisCache_set(l2, ret'.key, value, ttl, now, TRUE) = [s |-> l2, r |-> FALSE, raised |-> FALSE]
              /\ RedisCache_delete(l2, ret'.key, now, TRUE) = [s |-> l2, r |-> FALSE, raised |-> FALSE]
              /\ RedisCache_exists(l2, ret'.key, now, TRUE) = [s |-> l2, r |-> FALSE, raised |-> FALSE]
              /\ ~ret'.raised
              /\ l2' = l2
              /\ ret'.op = "ml.get" => (ret'.r = L1Value(l1, ret'.key, now))
              /\ ret'.op = "ml.set" => (L1Value(l1', ret'.key, now') = ret'.value /\ ret'.r = FALSE)
              /\ ret'.op = "ml.delete" =>
                     /\ ret'.key \notin DOMAIN l1'.cache
                     /\ ret'.r = (ret'.key \in DOMAIN l1.cache)
              /\ ret'.op = "ml.exists" => ret'.r = (L1Value(l1, ret'.key, now) # None)]_vars

\* A MultiLevelCache.set in which the redis client raised: it returned false,
\* tier 1 holds the value and the server does not hold the key.
C10_Witness ==
    /\ ret.op = "ml.set"
    /\ ret.fails
    /\ ~ret.raised
    /\ ret.r = FALSE
    /\ L1Value(l1, ret.key, now) = ret.value
    /\ ret.key \notin DOMAIN l2.store

(***************************************************************************)
(* cache.py: ThreadSafeLRUCache alone, with more keys than it can hold.     *)
(* The call record ret carries uses: the keys in the order of their most    *)
(* recent get-hit or set, latest first, kept by the caller from what the    *)
(* calls returned and never read by the cache, and before: the keys stored  *)
(* when the call began.                                                     *)
(***************************************************************************)
LruKeys == {"k1", "k2", "k3"}

\* ThreadSafeLRUCache.__init__, with nodes for the keys of LruKeys.
LruCacheOver(max_size, default_ttl) ==
    [ThreadSafeLRUCache(max_size, default_ttl) EXCEPT
        !.nxt = [n \in LruKeys \cup {_head, _tail} |-> IF n = _head THEN _tail ELSE None],
        !.prv = [n \in LruKeys \cup {_head, _tail} |-> IF n = _tail THEN _head ELSE None]]

\* seq without the key
Without(seq, key) == SelectSeq(seq, LAMBDA k : k # key)

\* The keys of uses that are stored in cache c.
StoredOf(uses, c) == SelectSeq(uses, LAMBDA k : k \in DOMAIN c.cache)

\* One call on the cache; used: the call was a set or a get that hit.
UseCall(op, key, res, used) ==
    /\ l1' = res.c
    /\ ret' = [op |-> op, key |-> key, r |-> res.r, before |-> DOMAIN l1.cache,
               uses |-> IF used THEN <<key>> \o Without(ret.uses, key) ELSE ret.uses]
    /\ UNCHANGED <<l2, now, lock, th, rulesVars, calVars, palaceVars, astroVars, qimenCacheVars>>

UseGet(key) ==
    \E res \in {ThreadSafeLRUCache_get(l1, key, now)} : UseCall("get", key, res, res.r # None)

UseSet(key, ttl) ==
    \E res \in {ThreadSafeLRUCache_set(l1, key, "v1", ttl, now)} : UseCall("set", key, res, TRUE)

UseDelete(key) ==
    \E res \in {ThreadSafeLRUCache_delete(l1, key)} : UseCall("delete", key, res, FALSE)

UseExists(key) ==
    \E res \in {ThreadSafeLRUCache_exists(l1, key, now)} : UseCall("exists", key, res, FALSE)

\* time.time() moves on by a second.
UseTick ==
    /\ now < MaxTime
    /\ now' = now + 1
    /\ ret' = [ret EXCEPT !.op = "tick", !.key = None, !.r = None, !.before = DOMAIN l1.cache]
    /\ UNCHANGED <<l1, l2, lock, th, rulesVars, calVars, palaceVars, astroVars, qimenCacheVars>>

InitLru ==
    /\ l1 \in {LruCacheOver(m, d) : m \in 1..MaxSize, d \in Ttls}
    /\ l2 = NoCache
    /\ now = 0
    /\ ret = [op |-> None, key |-> None, r |-> None, before |-> {}, uses |-> <<>>]
    /\ lock = NoCache
    /\ th = NoCache
    /\ memo = <<>>
    /\ aret = [op |-> None]
    /\ qc = NoCache
    /\ plugins = <<>>
    /\ applyRet = NoCall
    /\ InitOthersOfRules

NextLru ==
    \/ \E key \in LruKeys : UseGet(key)
    \/ \E key \in LruKeys, ttl \in Ttls : UseSet(key, ttl)
    \/ \E key \in LruKeys : UseDelete(key)
    \/ \E key \in LruKeys : UseExists(key)
    \/ UseTick

SpecLru == InitLru /\ [][NextLru]_vars

\* C25: in a ThreadSafeLRUCache with max_size >= 1, after any sequence of get,
\* set, delete and exists calls, a set that inserts a new key into a full
\* cache removes exactly one entry, the stored key whose most recent get-hit
\* or set is the oldest (an exists in between changes nothing), and the
\* number of stored entries never exceeds max_size.
C25_EvictsLeastRecentlyUsed ==
    [][/\ Cardinality(DOMAIN l1'.cache) <= l1'.max_size
       /\ (/\ ret'.op = "set"
           /\ ret'.key \notin DOMAIN l1.cache
           /\ Cardinality(DOMAIN l1.cache) = l1.max_size)
          => LET stored == StoredOf(ret.uses, l1)
             IN /\ Range(stored) = DOMAIN l1.cache
                /\ DOMAIN l1'.cache = ((DOMAIN l1.cache) \ {stored[Len(stored)]}) \cup {ret'.key}
       /\ ret'.op = "exists" => l1' = l1]_vars

\* A full cache of two entries k1 and k2, k1 the one used last: the set of the
\* new key k3 has removed k2 and kept k1.
C25_Witness ==
    /\ l1.max_size = 2
    /\ ret.op = "set" /\ ret.key = "k3"
    /\ ret.before = {"k1", "k2"}
    /\ ret.uses = <<"k3", "k1", "k2">>
    /\ DOMAIN l1.cache = {"k1", "k3"}

(***************************************************************************)
(* cache.py: MultiLevelCache.get and delete called by several threads.      *)
(* MultiLevelCache takes its own lock only around the statistics, so a      *)
(* thread can be switched out between two tier calls of one method.  Each   *)
(* tier call is one step: ThreadSafeLRUCache runs it under its lock, the    *)
(* redis server runs one command at a time.  th[t] is the position of       *)
(* thread t, with its key argument and the local variable value; ret holds  *)
(* the keys for which a delete has returned.                                *)
(***************************************************************************)
MlIdle == [pc |-> "idle", key |-> None, value |-> None]

\* The two tiers after MultiLevelCache.set(key, "v1") for each key of keys in turn.
RECURSIVE Populated(_, _, _)
Populated(c, s, keys) ==
    IF keys = <<>> THEN [c |-> c, s |-> s]
    ELSE LET res == MultiLevelCache_set(c, s, keys[1], "v1", NoneInt, 0, FALSE)
         IN Populated(res.c, res.s, SubSeq(keys, 2, Len(keys)))

\* Thread t calls get(key) or delete(key) and arrives at its first statement.
MlEnter(t, method, key) ==
    /\ th[t].pc = "idle"
    /\ th' = [th EXCEPT ![t] = [pc |-> method \o ": l1", key |-> key, value |-> None]]
    /\ UNCHANGED <<l1, l2, now, ret, lock, rulesVars, calVars, palaceVars, astroVars, qimenCacheVars>>

\* get: value = self.l1_cache.get(key); if value is not None: return value
MlGetL1(t) ==
    /\ th[t].pc = "get: l1"
    /\ \E res \in {ThreadSafeLRUCache_get(l1, th[t].key, now)} :
          /\ l1' = res.c
          /\ th' = [th EXCEPT ![t] = IF res.r # None \/ ~l2.present THEN MlIdle
                                     ELSE [th[t] EXCEPT !.pc = "get: l2"]]
    /\ UNCHANGED <<l2, now, ret, lock, rulesVars, calVars, palaceVars, astroVars, qimenCacheVars>>

\* get: value = self.l2_cache.get(key); if value is not None: ...
MlGetL2(t) ==
    /\ th[t].pc = "get: l2"
    /\ \E res \in {RedisCache_get(l2, th[t].key, now, FALSE)} :
          /\ l2' = res.s
          /\ th' = [th EXCEPT ![t] = IF res.r = None THEN MlIdle
                                     ELSE [th[t] EXCEPT !.pc = "get: write back", !.value = res.r]]
    /\ UNCHANGED <<l1, now, ret, lock, rulesVars, calVars, palaceVars, astroVars, qimenCacheVars>>

\* get: self.l1_cache.set(key, value); return value
MlGetWriteBack(t) ==
    /\ th[t].pc = "get: write back"
    /\ l1' = ThreadSafeLRUCache_set(l1, th[t].key, th[t].value, NoneInt, now).c
    /\ th' = [th EXCEPT ![t] = MlIdle]
    /\ UNCHANGED <<l2, now, ret, lock, rulesVars, calVars, palaceVars, astroVars, qimenCacheVars>>

\* delete: l1_success = self.l1_cache.delete(key); without a tier 2 the return.
MlDeleteL1(t) ==
    /\ th[t].pc = "delete: l1"
    /\ l1' = ThreadSafeLRUCache_delete(l1, th[t].key).c
    /\ th' = [th EXCEPT ![t] = IF l2.present THEN [th[t] EXCEPT !.pc = "delete: l2"] ELSE MlIdle]
    /\ ret' = IF l2.present THEN ret ELSE [ret EXCEPT !.deleted = @ \cup {th[t].key}]
    /\ UNCHANGED <<l2, now, lock, rulesVars, calVars, palaceVars, astroVars, qimenCacheVars>>

\* delete: l2_success = self.l2_cache.delete(key); return
MlDeleteL2(t) ==
    /\ th[t].pc = "delete: l2"
    /\ l2' = RedisCache_delete(l2, th[t].key, now, FALSE).s
    /\ th' = [th EXCEPT ![t] = MlIdle]
    /\ ret' = [ret EXCEPT !.deleted = @ \cup {th[t].key}]
    /\ UNCHANGED <<l1, now, lock, rulesVars, calVars, palaceVars, astroVars, qimenCacheVars>>

InitMlConc ==
    /\ \E m \in 1..MaxSize, d \in Ttls, present \in BOOLEAN, keys \in {<<"k1">>, <<"k1", "k2">>, <<"k2", "k1">>} :
          \E p \in {Populated(ThreadSafeLRUCache(m, d), [present |-> present, store |-> EmptyDict], keys)} :
              l1 = p.c /\ l2 = p.s
    /\ now = 0
    /\ ret = [deleted |-> {}]
    /\ lock = NoCache
    /\ th = [t \in Threads |-> MlIdle]
    /\ memo = <<>>
    /\ aret = [op |-> None]
    /\ qc = NoCache
    /\ plugins = <<>>
    /\ applyRet = NoCall
    /\ InitOthersOfRules

NextMlConc ==
    \/ \E t \in Threads, method \in {"get", "delete"}, key \in Keys : MlEnter(t, method, key)
    \/ \E t \in Threads : MlGetL1(t)
    \/ \E t \in Threads : MlGetL2(t)
    \/ \E t \in Threads : MlGetWriteBack(t)
    \/ \E t \in Threads : MlDeleteL1(t)
    \/ \E t \in Threads : MlDeleteL2(t)

SpecMlConc == InitMlConc /\ [][NextMlConc]_vars

\* C28: in a MultiLevelCache with two tiers, under any interleaving of
\* concurrent get(k) and delete(k) calls and no set(k) by any caller, once a
\* delete(k) has returned and no call is in flight, k is absent from both
\* tiers and exists(k) is false: a concurrent get never puts the deleted
\* value back into tier 1.
C28_DeletedStaysDeleted ==
    \A k \in Keys :
        (/\ l2.present
         /\ k \in ret.deleted
         /\ \A t \in Threads : th[t].pc = "idle")
            => /\ k \notin DOMAIN l1.cache
               /\ k \notin DOMAIN l2.store
               /\ ~MultiLevelCache_exists(l1, l2, k, now, FALSE).r

(***************************************************************************)
(* cache.py: MultiLevelCache.set and get over time.  The call record ret    *)
(* carries sets: for every key, when its latest set was made and with which *)
(* ttl, kept by the caller and never read by the cache.                     *)
(***************************************************************************)
TtlCall(op, key, res, sets) ==
    /\ l1' = res.c
    /\ l2' = res.s
    /\ ret' = [op |-> op, key |-> key, r |-> res.r, sets |-> sets]
    /\ UNCHANGED <<now, lock, th, rulesVars, calVars, palaceVars, astroVars, qimenCacheVars>>

TtlSet(key, value, ttl) ==
    \E res \in {MultiLevelCache_set(l1, l2, key, value, ttl, now, FALSE)} :
        TtlCall("set", key, res, DictSet(ret.sets, key, [at |-> now, ttl |-> ttl, value |-> value]))

TtlGet(key) ==
    \E res \in {MultiLevelCache_get(l1, l2, key, now, FALSE)} : TtlCall("get", key, res, ret.sets)

\* time.time() moves on by a second; the redis server drops what is due.
TtlTick ==
    /\ now < MaxTime
    /\ now' = now + 1
    /\ l2' = RedisExpire(l2, now + 1)
    /\ ret' = [ret EXCEPT !.op = "tick", !.key = None, !.r = None]
    /\ UNCHANGED <<l1, lock, th, rulesVars, calVars, palaceVars, astroVars, qimenCacheVars>>

InitTtl ==
    /\ l1 \in {ThreadSafeLRUCache(m, d) : m \in 1..MaxSize, d \in Ttls}
    /\ l2 \in {[present |-> p, store |-> EmptyDict] : p \in BOOLEAN}
    /\ now = 0
    /\ ret = [op |-> None, key |-> None, r |-> None, sets |-> EmptyDict]
    /\ lock = NoCache
    /\ th = NoCache
    /\ memo = <<>>
    /\ aret = [op |-> None]
    /\ qc = NoCache
    /\ plugins = <<>>
    /\ applyRet = NoCall
    /\ InitOthersOfRules

NextTtl ==
    \/ \E key \in Keys, value \in Values, ttl \in Ttls : TtlSet(key, value, ttl)
    \/ \E key \in Keys : TtlGet(key)
    \/ TtlTick

SpecTtl == InitTtl /\ [][NextTtl]_vars

\* C29: a value stored through MultiLevelCache.set(k, v, ttl) is never
\* returned by get(k) later than ttl seconds after that set, no newer set of k
\* having been made: also when tier 1 evicted k for capacity in between and a
\* tier-2 hit wrote it back to tier 1.
C29_NotReturnedAfterTtl ==
    (/\ ret.op = "get"
     /\ ret.r # None
     /\ ret.key \in DOMAIN ret.sets
     /\ ret.sets[ret.key].ttl # NoneInt)
        => now <= ret.sets[ret.key].at + ret.sets[ret.key].ttl

(***************************************************************************)
(* astronomical.py: AstronomicalCalculator.                                 *)
(*                                                                          *)
(* A naive datetime is a whole number of hours: date.toordinal() * 24 +     *)
(* hour.  An aware datetime is [t, tz]: the wall-clock hours t and the zone *)
(* they are read in.  Angles are in units of 0.00001 degree.  The solar     *)
(* longitude keeps the linear part of the mean longitude L0; the T * T      *)
(* terms and the equation of centre C (below 2 degrees) are left out, so    *)
(* the model's term times are the mean-sun times, rounded to the hour.      *)
(***************************************************************************)
\* dt.year
YearOf(t) == FromOrdinal(t \div 24)[1]

Zones == {"UTC", "Asia/Shanghai"}

\* tzinfo.utcoffset(), in hours
UtcOffset(tz) == IF tz = "Asia/Shanghai" THEN 8 ELSE 0

\* The instant an aware datetime denotes, as UTC wall-clock hours.
Instant(dt) == dt.t - UtcOffset(dt.tz)

EPOCH_2000 == 2451545

SOLAR_TERMS_LONGITUDE ==
    [n \in Range(SOLAR_TERMS) |-> (315 + 15 * IndexOf(SOLAR_TERMS, n)) % 360]

\* julian_day(dt), in hours (24 * jd): dt.replace(tzinfo=None) keeps the
\* wall-clock fields of dt, whatever its zone.
julian_day(dt) ==
    LET jdn(year, month, day) ==
            LET a == (14 - month) \div 12
                y == year + 4800 - a
                m == month + 12 * a - 3
            IN day + ((153 * m + 2) \div 5) + 365 * y + (y \div 4) - (y \div 100) + (y \div 400) - 32045
        fields(ymd) == jdn(ymd[1], ymd[2], ymd[3])
    IN fields(FromOrdinal(dt.t \div 24)) * 24 + ((dt.t % 24) - 12)

\* calculate_solar_longitude(julian_day): L0 = 280.46646 + 36000.76983 * T with
\* T = (jd - EPOCH_2000) / 36525, that is 0.98565 degree a day, modulo 360.
calculate_solar_longitude(jd) ==
    LET h == jd - EPOCH_2000 * 24
    IN (28046646 + 98565 * (h \div 24) + ((98565 * (h % 24)) \div 24)) % 36000000

\* initial_dt of find_solar_term_time: <<year, month, day>>.
initial_dt(year, term_name) ==
    LET term_index == IndexOf(SOLAR_TERMS, term_name)
        y == IF term_index >= 20 THEN year + 1 ELSE year
        approx_day ==
            IF term_index >= 20 THEN 6 + (term_index - 20) * 15
            ELSE 6 + (term_index % 2) * 15 + (term_index \div 2) * 30
        m0 == ((term_index \div 2) + 1) % 12
        month == IF m0 = 0 THEN 12 ELSE m0
    IN <<y, month, IF approx_day < 28 THEN approx_day ELSE 28>>

\* The for loop of find_solar_term_time with n iterations left.  A correction
\* that rounds to zero hours leaves dt, and so every later iteration, unchanged.
RECURSIVE NewtonFrom(_, _, _)
NewtonFrom(dt, target_longitude, n) ==
    IF n = 0 THEN dt
    ELSE LET \* diff > 180: diff -= 360; diff < -180: diff += 360
             Wrapped(diff) ==
                 IF diff > 18000000 THEN diff - 36000000
                 ELSE IF diff < -18000000 THEN diff + 36000000 ELSE diff
             \* timedelta(days=diff / 0.9856), to the nearest hour
             day_correction(diff) == (2 * 24 * diff + 98560) \div (2 * 98560)
             \* the convergence test, then dt = dt + timedelta(days=day_correction)
             Iterate(diff) ==
                 IF (diff < 10 /\ diff > -10) \/ day_correction(diff) = 0 THEN dt
                 ELSE NewtonFrom(dt + day_correction(diff), target_longitude, n - 1)
         IN Iterate(Wrapped(target_longitude
                            - calculate_solar_longitude(julian_day([t |-> dt, tz |-> None]))))

find_solar_term_time(year, term_name) ==
    LET i == initial_dt(year, term_name)
    IN NewtonFrom(datetime(i[1], i[2], i[3], 0), SOLAR_TERMS_LONGITUDE[term_name] * 100000, 10)

\* The loop of calculate_all_solar_terms from the i-th term on:
\* solar_terms[term_name] = self.find_solar_term_time(year, term_name)
RECURSIVE SolarTermsFrom(_, _)
SolarTermsFrom(year, i) ==
    LET entry == SOLAR_TERMS[i] :> find_solar_term_time(year, SOLAR_TERMS[i])
    IN IF i = Len(SOLAR_TERMS) THEN entry ELSE entry @@ SolarTermsFrom(year, i + 1)

\* The years whose term tables the calls below can ask for.
TableYears == (BaseYear - YearSpan - 1)..(BaseYear + YearSpan + 1)

RECURSIVE TablesFrom(_)
TablesFrom(year) ==
    LET entry == year :> SolarTermsFrom(year, 1)
    IN IF year + 1 \in TableYears THEN entry @@ TablesFrom(year + 1) ELSE entry

\* The undecorated calculate_all_solar_terms: year -> term name -> time.
calculate_all_solar_terms == TablesFrom(BaseYear - YearSpan - 1)

\* Entries the lru_cache of calculate_all_solar_terms keeps (maxsize in the source: 50).
MemoSize == 3

\* A cache lookup that takes the newest entry, whatever its key.
lru_cache_hit_AnyKey(m, year) == Len(m)

\* The position of the entry cached for the key year; 0 on a miss.
lru_cache_hit(m, year) ==
    IF \E i \in 1..Len(m) : m[i].year = year
    THEN CHOOSE i \in 1..Len(m) : m[i].year = year
    ELSE 0

\* @lru_cache calculate_all_solar_terms(year): [memo, terms].
lru_cache(m, year) ==
    LET Hit(i) == [memo |-> Append(SelectSeq(m, LAMBDA e : e # m[i]), m[i]), terms |-> m[i].terms]
        Kept(grown) == IF Len(grown) > MemoSize THEN Tail(grown) ELSE grown
        Miss(terms) == [memo |-> Kept(Append(m, [year |-> year, terms |-> terms])), terms |-> terms]
    IN IF lru_cache_hit(m, year) # 0 THEN Hit(lru_cache_hit(m, year))
       ELSE Miss(calculate_all_solar_terms[year])

\* get_current_solar_term(dt) after its two table lookups: [name, index, time].
get_current_solar_term(dt, current_year_terms, prev_year_terms) ==
    LET year == YearOf(dt)
        all_terms ==
            {<<n, prev_year_terms[n]>> : n \in {x \in {"xiaohan", "dahan"} : YearOf(prev_year_terms[x]) = year}}
            \cup {<<n, current_year_terms[n]>> : n \in Range(SOLAR_TERMS)}
        passed == {e \in all_terms : dt >= e[2]}
    IN IF passed = {}
       THEN [name |-> "dahan", index |-> IndexOf(SOLAR_TERMS, "dahan"), time |-> prev_year_terms["dahan"]]
       ELSE LET e == CHOOSE x \in passed : \A z \in passed : z[2] <= x[2]
            IN [name |-> e[1], index |-> IndexOf(SOLAR_TERMS, e[1]), time |-> e[2]]

(***************************************************************************)
(* qimen_only.py: _core_qimen_calculation, the pipeline from a timestamp to *)
(* the findings.  Timestamps are naive local times.  cal, juRet and board   *)
(* hold what the last call returned, and nothing after a call of the        *)
(* calculator alone.                                                        *)
(***************************************************************************)
\* rules.create_default_engine(): a fresh engine with the four stock plugins.
create_default_engine ==
    <<[name |-> "zhifu", does |-> "return"], [name |-> "wangshuai", does |-> "return"],
      [name |-> "geju", does |-> "return"], [name |-> "yingqi", does |-> "return"]>>

\* _core_qimen_calculation(dt) run with the memo m: [memo, cal, ju, board, analysis].
\* calculate_month_ganzhi looks the current term up at calc_dt; from_datetime
\* looks it up again, at calc_dt ("astronomical") or at midnight of the date.
\* Each step is an operator of the values the steps before it produced.
_core_qimen_calculation(m, y, mo, d, hour, minute, algorithm) ==
    LET \* analysis = engine.analyze(...); the returned values
        Analyze(memo_, cal_info, j) ==
            [memo |-> memo_, cal |-> cal_info, ju |-> j, board |-> turn_pan(j[1], j[2]),
             analysis |-> apply_all(create_default_engine)]
        \* ju_number, is_yang = get_ju(cal_info, "huopan")
        Chart(memo_, cal_info) == Analyze(memo_, cal_info, get_ju(cal_info, "huopan"))
        \* cal_info = from_datetime(dt)
        Record(dt, memo_, month_gz, cur) ==
            Chart(memo_,
                  [from_datetime(y, mo, d, hour, minute,
                                 [name |-> cur.name,
                                  days |-> IF dt >= cur.time THEN (dt - cur.time) \div 24 ELSE -1],
                                 algorithm)
                      EXCEPT !.month_gan = month_gz[1], !.month_zhi = month_gz[2]])
        \* the second lookup: calculate_all_solar_terms(year), then (year - 1)
        SecondPrev(dt, c2, p2, month_term) ==
            Record(dt, p2.memo, calculate_month_ganzhi(y, mo, month_term.name, TRUE),
                   get_current_solar_term(IF algorithm = "astronomical" THEN dt
                                          ELSE datetime(y, mo, d, 0),
                                          c2.terms, p2.terms))
        Second(dt, c2, month_term) == SecondPrev(dt, c2, lru_cache(c2.memo, y - 1), month_term)
        \* the first lookup: calculate_all_solar_terms(year), then (year - 1)
        FirstPrev(dt, c1, p1) ==
            Second(dt, lru_cache(p1.memo, y), get_current_solar_term(dt, c1.terms, p1.terms))
        First(dt, c1) == FirstPrev(dt, c1, lru_cache(c1.memo, y - 1))
    IN First(datetime(y, mo, d, hour), lru_cache(m, y))

AstroMonths == {1, 2, 7, 12}

AstroDays == {1, 25}

AstroHours == {0, 23}

CoreQimenCalculation(y, mo, d, hour, minute) ==
    /\ \E r \in {_core_qimen_calculation(memo, y, mo, d, hour, minute, config.solar_term_algorithm)} :
          /\ memo' = r.memo
          /\ cal' = r.cal
          /\ juRet' = [op |-> "get_ju", mode |-> "huopan", ju_number |-> r.ju[1], is_yang |-> r.ju[2],
                       valid |-> validate_ju(r.ju[1], r.ju[2], r.cal), raised |-> FALSE]
          /\ board' = r.board
          /\ plugins' = create_default_engine
          /\ applyRet' = r.analysis
    /\ aret' = [op |-> "_core_qimen_calculation", dt |-> [t |-> datetime(y, mo, d, hour), tz |-> None]]
    /\ UNCHANGED <<config, cacheVars, qimenCacheVars>>

GetCurrentSolarTerm(y, mo, d, hour) ==
    /\ \E dt \in {datetime(y, mo, d, hour)} :
       \E c \in {lru_cache(memo, y)} :
       \E p \in {lru_cache(c.memo, y - 1)} :
          /\ memo' = p.memo
          /\ aret' = [op |-> "get_current_solar_term", dt |-> [t |-> dt, tz |-> None],
                      r |-> get_current_solar_term(dt, c.terms, p.terms)]
    /\ cal' = NoCal
    /\ juRet' = NoJu
    /\ board' = NoBoard
    /\ UNCHANGED <<config, rulesVars, cacheVars, qimenCacheVars>>

JulianDay(dt) ==
    /\ aret' = [op |-> "julian_day", dt |-> dt, r |-> julian_day(dt)]
    /\ cal' = NoCal
    /\ juRet' = NoJu
    /\ board' = NoBoard
    /\ UNCHANGED <<memo, config, rulesVars, cacheVars, qimenCacheVars>>

\* find_solar_term_time(year, term_name); initial_dt is the seed of its loop.
FindSolarTermTime(year, term_name) ==
    /\ aret' = [op |-> "find_solar_term_time", year |-> year, term_name |-> term_name,
                initial_dt |-> initial_dt(year, term_name),
                r |-> find_solar_term_time(year, term_name)]
    /\ cal' = NoCal
    /\ juRet' = NoJu
    /\ board' = NoBoard
    /\ UNCHANGED <<memo, config, rulesVars, cacheVars, qimenCacheVars>>

NextAstro ==
    \/ \E y \in Years, mo \in AstroMonths, d \in AstroDays, hour \in AstroHours, minute \in Minutes :
           CoreQimenCalculation(y, mo, d, hour, minute)
    \/ \E y \in Years, mo \in AstroMonths, d \in AstroDays, hour \in AstroHours :
           GetCurrentSolarTerm(y, mo, d, hour)
    \/ \E y \in Years, mo \in {1, 12}, d \in AstroDays, hour \in AstroHours, tz \in Zones \cup {None} :
           JulianDay([t |-> datetime(y, mo, d, hour), tz |-> tz])

SpecAstro == InitCal /\ [][NextAstro]_vars

\* find_solar_term_time called on its own, for every year and term.
NextTermTime == \E year \in Years, term_name \in Range(SOLAR_TERMS) : FindSolarTermTime(year, term_name)

SpecTermTime == InitCal /\ [][NextTermTime]_vars

C14_CurrentTermIsLatestPassed ==
    aret.op = "get_current_solar_term" =>
        LET dt == aret.dt.t
            year == YearOf(dt)
            times == {calculate_all_solar_terms[y][n] : y \in {year - 1, year, year + 1}, n \in Range(SOLAR_TERMS)}
        IN /\ aret.r.time <= dt
           /\ \A x \in times : x <= dt => x <= aret.r.time

\* C16: the year pillar turns at lichun (立春): a record built for a timestamp
\* before lichun of its civil year carries the pillar of the year before, and
\* a record built for a timestamp at or after lichun that of the civil year.
C16_YearPillarTurnsAtLichun ==
    aret.op = "_core_qimen_calculation" =>
        LET lichun == calculate_all_solar_terms[cal.year]["lichun"]
        IN <<cal.year_gan, cal.year_zhi>> =
               calculate_year_ganzhi(IF aret.dt.t < lichun THEN cal.year - 1 ELSE cal.year)

\* C17: julian_day of an aware datetime is the Julian day of every aware
\* datetime that denotes the same instant in another zone.
C17_JulianDayOfInstant ==
    (aret.op = "julian_day" /\ aret.dt.tz # None) =>
        \A tz \in Zones :
            julian_day([t |-> Instant(aret.dt) + UtcOffset(tz), tz |-> tz]) = aret.r

\* C21: the seed of find_solar_term_time is a valid calendar date for every
\* term index 0..23, and for the terms of index 20 and above it lies in
\* January of the year after the requested year.
C21_InitialGuessInJanuary ==
    aret.op = "find_solar_term_time" =>
        LET term_index == IndexOf(SOLAR_TERMS, aret.term_name)
            year == aret.initial_dt[1]
            month == aret.initial_dt[2]
            day == aret.initial_dt[3]
        IN /\ month \in 1..12
           /\ day \in 1..DaysInMonth(year, month)
           /\ term_index >= 20 => (year = aret.year + 1 /\ month = 1)

(***************************************************************************)
(* cache.py: CacheKeyGenerator.generate_time_key and QimenCache.  The       *)
(* object is built without redis (enable_redis defaults to False).  A       *)
(* datetime argument is [year, month, day, hour]; cached data are strings.  *)
(***************************************************************************)
\* f"{n:02d}"
Pad2(n) == IF n < 10 THEN "0" \o ToString(n) ELSE ToString(n)

generate_time_key(dt, precision) ==
    LET day == "time:" \o ToString(dt.year) \o "-" \o Pad2(dt.month) \o "-" \o Pad2(dt.day)
    IN CASE precision = "year" -> "time:" \o ToString(dt.year)
         [] precision = "month" -> "time:" \o ToString(dt.year) \o "-" \o Pad2(dt.month)
         [] precision = "day" -> day
         [] OTHER -> day \o "-" \o Pad2(dt.hour)

\* QimenCache.__init__: the switches config.get("cache_...", True) assigns.
\* self.cache_palace_data is an instance attribute with the name of the method
\* cache_palace_data, so the name is bound to the switch on every instance.
QimenCache ==
    [cache_solar_terms : BOOLEAN, cache_ganzhi : BOOLEAN,
     cache_ju_numbers : BOOLEAN, cache_palace_data : BOOLEAN]

\* The early return of a helper whose category is switched off.
SwitchedOff(c, s, r) == [c |-> c, s |-> s, r |-> r, raised |-> FALSE, l2called |-> FALSE]

cache_solar_term_data(q, c, s, year, data, t) ==
    IF ~q.cache_solar_terms THEN SwitchedOff(c, s, FALSE)
    ELSE MultiLevelCache_set(c, s, "solar_terms:" \o ToString(year), data, 86400, t, FALSE)

get_solar_term_data(q, c, s, year, t) ==
    IF ~q.cache_solar_terms THEN SwitchedOff(c, s, None)
    ELSE MultiLevelCache_get(c, s, "solar_terms:" \o ToString(year), t, FALSE)

cache_ganzhi_data(q, c, s, dt, ganzhi_data, t) ==
    IF ~q.cache_ganzhi THEN SwitchedOff(c, s, FALSE)
    ELSE MultiLevelCache_set(c, s, "ganzhi:" \o generate_time_key(dt, "day"), ganzhi_data, 3600, t, FALSE)

get_ganzhi_data(q, c, s, dt, t) ==
    IF ~q.cache_ganzhi THEN SwitchedOff(c, s, None)
    ELSE MultiLevelCache_get(c, s, "ganzhi:" \o generate_time_key(dt, "day"), t, FALSE)

\* data = {"ju_number": ju_number, "is_yang": is_yang}; data is <<ju_number, is_yang>>
JuData(data) == "ju_number=" \o ToString(data[1]) \o ",is_yang=" \o (IF data[2] THEN "True" ELSE "False")

cache_ju_data(q, c, s, dt, data, t) ==
    IF ~q.cache_ju_numbers THEN SwitchedOff(c, s, FALSE)
    ELSE MultiLevelCache_set(c, s, "ju:" \o generate_time_key(dt, "hour"), JuData(data), 1800, t, FALSE)

get_ju_data(q, c, s, dt, t) ==
    IF ~q.cache_ju_numbers THEN SwitchedOff(c, s, None)
    ELSE MultiLevelCache_get(c, s, "ju:" \o generate_time_key(dt, "hour"), t, FALSE)

\* self.cache_palace_data(ju_key, palace_data) looks the name up on the instance
\* first and finds the bool that __init__ stored: the call raises TypeError
\* ('bool' object is not callable) and the method body is never entered.
cache_palace_data(q, c, s, ju_key, palace_data, t) ==
    [c |-> c, s |-> s, r |-> None, raised |-> TRUE, l2called |-> FALSE]

get_palace_data(q, c, s, ju_key, t) ==
    IF ~q.cache_palace_data THEN SwitchedOff(c, s, None)
    ELSE MultiLevelCache_get(c, s, "palace:" \o ju_key, t, FALSE)

HelperKinds == {"solar_term", "ganzhi", "ju", "palace"}

QcDatetimes == [year : {BaseYear}, month : {1}, day : {1, 2}, hour : {0, 1}]

\* The arguments and data the helpers of a kind are called with.
HelperArgs(kind) ==
    CASE kind = "solar_term" -> {BaseYear, BaseYear + 1}
      [] kind = "palace" -> {"yangdun1", "yindun9"}
      [] OTHER -> QcDatetimes

HelperData(kind) == IF kind = "ju" THEN {<<1, TRUE>>, <<9, FALSE>>} ELSE Values

\* What get_X returns for data that cache_X was given.
Returned(kind, data) == IF kind = "ju" THEN JuData(data) ELSE data

cache_data(kind, q, c, s, arg, data, t) ==
    CASE kind = "solar_term" -> cache_solar_term_data(q, c, s, arg, data, t)
      [] kind = "ganzhi" -> cache_ganzhi_data(q, c, s, arg, data, t)
      [] kind = "ju" -> cache_ju_data(q, c, s, arg, data, t)
      [] OTHER -> cache_palace_data(q, c, s, arg, data, t)

get_data(kind, q, c, s, arg, t) ==
    CASE kind = "solar_term" -> get_solar_term_data(q, c, s, arg, t)
      [] kind = "ganzhi" -> get_ganzhi_data(q, c, s, arg, t)
      [] kind = "ju" -> get_ju_data(q, c, s, arg, t)
      [] OTHER -> get_palace_data(q, c, s, arg, t)

\* One call of a typed helper: res is what it did.
HelperCall(op, kind, arg, data, res) ==
    /\ l1' = res.c
    /\ l2' = res.s
    /\ ret' = [op |-> op, kind |-> kind, arg |-> arg, data |-> data, r |-> res.r, raised |-> res.raised]
    /\ UNCHANGED <<now, lock, th, rulesVars, calVars, palaceVars, astroVars, qimenCacheVars>>

CacheData(kind, arg, data) == HelperCall("cache", kind, arg, data, cache_data(kind, qc, l1, l2, arg, data, now))

GetData(kind, arg) == HelperCall("get", kind, arg, None, get_data(kind, qc, l1, l2, arg, now))

\* The keys the helpers build for these arguments.
HelperKeys ==
    {"solar_terms:" \o ToString(year) : year \in HelperArgs("solar_term")}
    \cup {"ganzhi:" \o generate_time_key(dt, "day") : dt \in QcDatetimes}
    \cup {"ju:" \o generate_time_key(dt, "hour") : dt \in QcDatetimes}
    \cup {"palace:" \o ju_key : ju_key \in HelperArgs("palace")}

\* ThreadSafeLRUCache(max_size=l1_size, default_ttl=l1_ttl), its nodes named by
\* the helpers' keys.
HelperLRUCache(max_size, default_ttl) ==
    [ThreadSafeLRUCache(max_size, default_ttl) EXCEPT
        !.nxt = [n \in HelperKeys \cup {_head, _tail} |-> IF n = _head THEN _tail ELSE None],
        !.prv = [n \in HelperKeys \cup {_head, _tail} |-> IF n = _tail THEN _head ELSE None]]

InitQimenCache ==
    /\ qc \in QimenCache
    /\ l1 \in {HelperLRUCache(m, d) : m \in 1..MaxSize, d \in Ttls}
    /\ l2 = [present |-> FALSE, store |-> EmptyDict]
    /\ now = 0
    /\ ret = NoRet
    /\ lock = NoCache
    /\ th = NoCache
    /\ memo = <<>>
    /\ aret = [op |-> None]
    /\ plugins = <<>>
    /\ applyRet = NoCall
    /\ InitOthersOfRules

NextQimenCache ==
    \/ \E kind \in HelperKinds : \E arg \in HelperArgs(kind), data \in HelperData(kind) : CacheData(kind, arg, data)
    \/ \E kind \in HelperKinds : \E arg \in HelperArgs(kind) : GetData(kind, arg)

SpecQimenCache == InitQimenCache /\ [][NextQimenCache]_vars

\* The switch of a category.
Enabled(q, kind) ==
    CASE kind = "solar_term" -> q.cache_solar_terms
      [] kind = "ganzhi" -> q.cache_ganzhi
      [] kind = "ju" -> q.cache_ju_numbers
      [] OTHER -> q.cache_palace_data

\* The documented key of a bucket: solar_terms:{year}, ganzhi:{year}-{month}-{day},
\* ju:{year}-{month}-{day}-{hour}, palace:{ju_key}.
DocumentedKey(kind, arg) ==
    LET day == ToString(arg.year) \o "-" \o Pad2(arg.month) \o "-" \o Pad2(arg.day)
    IN CASE kind = "solar_term" -> "solar_terms:" \o ToString(arg)
         [] kind = "ganzhi" -> "ganzhi:" \o day
         [] kind = "ju" -> "ju:" \o day \o "-" \o Pad2(arg.hour)
         [] OTHER -> "palace:" \o arg

\* C18: with its category enabled, cache_X(arg, data) does not raise and stores
\* data under the documented key; a get_X right after it returns data for every
\* argument of the same bucket, and returns data for an argument of another
\* bucket only if it did so before the cache_X call.
C18_TypedHelpers ==
    [][(ret'.op = "cache" /\ Enabled(qc, ret'.kind)) =>
           /\ ~ret'.raised
           /\ L1Value(l1', DocumentedKey(ret'.kind, ret'.arg), now') = Returned(ret'.kind, ret'.data)
           /\ \A arg \in HelperArgs(ret'.kind) :
                  LET before == get_data(ret'.kind, qc, l1, l2, arg, now).r
                      after == get_data(ret'.kind, qc', l1', l2', arg, now').r
                  IN IF DocumentedKey(ret'.kind, arg) = DocumentedKey(ret'.kind, ret'.arg)
                     THEN after = Returned(ret'.kind, ret'.data)
                     ELSE after = Returned(ret'.kind, ret'.data) => before = after]_vars

====
